---- MODULE Spec2Model ----
(***************************************************************************)
(* The Garden: the in-memory Domain Model (app/models.py, class Huerta),   *)
(* the Synchronization Adapter (database/model_adapter.py, ModelAdapter)   *)
(* and the Store Connection Manager (database/kuzu_manager.py,             *)
(* KuzuDBManager) over a graph store.                                      *)
(*                                                                         *)
(* Coordinates are floats in the code; the model draws them from integer   *)
(* points, where dist < r is decided exactly by dx*dx + dy*dy < r*r and    *)
(* ordering by distance is ordering by squared distance.                   *)
(***************************************************************************)
EXTENDS Integers, Sequences, FiniteSets, Bags

VARIABLES
    cultivos_activos,   \* Huerta.cultivos_activos: list of crops, insertion order
    anotaciones,        \* Huerta.anotaciones: list of annotations, insertion order
    huerta_kuzu,        \* Huerta._kuzu_available
    kuzu_available,     \* KuzuDBManager._kuzu_available
    db,                 \* contents of the graph store (nodes and relationships)
    hilos,              \* where each request thread stands in agregar_cultivo_activo
    last                \* what the last call was given and what it gave back

vars == <<cultivos_activos, anotaciones, huerta_kuzu, kuzu_available, db, hilos, last>>

----------------------------------------------------------------------------
(* Bounds and input sets *)

MaxCultivos == 2        \* crops held in memory
MaxAnotaciones == 1     \* annotations held in memory
MaxNotas == 2           \* annotations held in memory where they are queried
MaxPlantas == 2         \* Planta nodes created through the adapter alone
MaxCopias == 2          \* copies of one relationship between the same two nodes
MaxSellos == 2          \* distinct seconds the clock shows while annotations are added to the store
MaxRejilla == 12        \* largest coordinate of the grid points tested against polygons
MaxBorrados == 1        \* times the store is deleted from outside

\* Points crops are placed at and queried at: pairs closer than the
\* tolerance (13), at the tolerance (20), between tolerance and collision
\* radius, at the radius (25), inside the query box but outside the circle
\* (20,20), and far away.
Puntos == {<<0, 0>>, <<13, 0>>, <<20, 0>>, <<25, 0>>, <<20, 20>>, <<0, 50>>}

\* Points for the specifications where only the collision test matters
PuntosEscritura == {<<0, 0>>, <<13, 0>>, <<25, 0>>}

\* An id is a prefix and a number: f"cultivo_{n}" is [pfx |-> "cultivo", n |-> n].
GenId(p, k) == [pfx |-> p, n |-> k]
NoId == GenId("none", 0)              \* id = None (or ""): "not id" holds

\* ids a caller passes with a crop: none, or the string "cultivo_2"
CultivoIdInputs == {NoId, GenId("cultivo", 2)}

\* vegetable-type ids a caller passes: a configured one and an unknown one
HortalizaInputs == {1, 99}

\* crops a caller hands to the adapter directly: ids cultivo_1 .. cultivo_MaxPlantas
PlantaIdInputs == {GenId("cultivo", k) : k \in 1..MaxPlantas}

\* points the adapter's crops lie at, and points the store is queried at:
\* from (25,0) the crop at (0,0) is outside the box of half-width 20, from
\* (0,0) the crop at (20,20) is inside the box and outside the circle
PuntosPlanta == {<<0, 0>>, <<20, 20>>}
PuntosConsulta == {<<0, 0>>, <<25, 0>>}

\* the structures of the configuration ([[estructuras.estructura]]): a
\* square, a triangle overlapping it, and a polygon of two vertices; nombre
\* is the rank of the structure's name in alphabetical order
EstructurasToml ==
    <<[id |-> "cuadrado", nombre |-> 1,
       poligono |-> <<<<0, 0>>, <<10, 0>>, <<10, 10>>, <<0, 10>>>>],
      [id |-> "triangulo", nombre |-> 3,
       poligono |-> <<<<0, 0>>, <<10, 0>>, <<5, 10>>>>],
      [id |-> "segmento", nombre |-> 2,
       poligono |-> <<<<0, 0>>, <<1, 1>>>>]>>

\* points checked against the structures: in both, in the square only, in
\* neither (right of both, below both)
PuntosEstructura == {<<5, 3>>, <<1, 8>>, <<15, 5>>, <<5, -1>>}

NoHortaliza == -1                     \* Anotacion.hortaliza_id = None

\* what one execute_query call can do: run the query, raise (store-level
\* failure, or reading the cursor fails), or get no connection (returns None)
Outcome == {"ok", "raise", "noconn"}

----------------------------------------------------------------------------
(* Geometry *)

Radio == 25             \* _verificar_colision(radio=25)
Tolerancia == 20        \* "if dist < 20" / query radius 20.0
LimitManager == 5       \* LIMIT 5
LimitAdapter == 10      \* LIMIT 10
SpatialRadius == 50     \* get_spatial_query(radius=50.0)

Dist2(x1, y1, x2, y2) == (x1 - x2) * (x1 - x2) + (y1 - y2) * (y1 - y2)

Abs(v) == IF v < 0 THEN -v ELSE v

Min(a, b) == IF a < b THEN a ELSE b

\* the test of one edge in _point_in_polygon, from vertex j to vertex i:
\*   ((yi > y) != (yj > y)) and (x < (xj - xi) * (y - yi) / (yj - yi) + xi)
\* the second conjunct is read only when yi # yj, and is decided here
\* without dividing (both sides multiplied by yj - yi)
Cruza(x, y, xi, yi, xj, yj) ==
    /\ (yi > y) # (yj > y)
    /\ IF yj > yi THEN (x - xi) * (yj - yi) < (xj - xi) * (y - yi)
                  ELSE (x - xi) * (yj - yi) > (xj - xi) * (y - yi)

\* a mutant: a point is inside as soon as its ray crosses one edge
point_in_polygon_alguna(x, y, polygon) ==
    IF Len(polygon) < 3 THEN FALSE
    ELSE LET n == Len(polygon)
             j(i) == IF i = 1 THEN n ELSE i - 1
         IN \E i \in 1..n : Cruza(x, y, polygon[i][1], polygon[i][2],
                                  polygon[j(i)][1], polygon[j(i)][2])

\* KuzuDBManager._point_in_polygon: inside toggles once per crossed edge
point_in_polygon(x, y, polygon) ==
    IF Len(polygon) < 3 THEN FALSE
    ELSE LET n == Len(polygon)
             j(i) == IF i = 1 THEN n ELSE i - 1
         IN Cardinality({i \in 1..n :
                           Cruza(x, y, polygon[i][1], polygon[i][2],
                                 polygon[j(i)][1], polygon[j(i)][2])}) % 2 = 1

\* a mutant: both operands of the "and" are evaluated for every edge
divide_siempre(x, y, xi, yi, xj, yj) == TRUE

\* whether the test of one edge evaluates its division by (yj - yi): "and"
\* evaluates its second operand only when the first one holds
divide(x, y, xi, yi, xj, yj) == (yi > y) # (yj > y)

\* the divisors (yj - yi) of the divisions one call of _point_in_polygon
\* evaluates
divisores(x, y, polygon) ==
    IF Len(polygon) < 3 THEN {}
    ELSE LET n == Len(polygon)
             j(i) == IF i = 1 THEN n ELSE i - 1
         IN {polygon[j(i)][2] - polygon[i][2] :
                i \in {k \in 1..n : divide(x, y, polygon[k][1], polygon[k][2],
                                           polygon[j(k)][1], polygon[j(k)][2])}}

\* the polygons of the tests: square, triangle, L-shape
Cuadrado == <<<<0, 0>>, <<10, 0>>, <<10, 10>>, <<0, 10>>>>
Triangulo == <<<<0, 0>>, <<10, 0>>, <<5, 10>>>>
FormaL == <<<<0, 0>>, <<10, 0>>, <<10, 5>>, <<5, 5>>, <<5, 10>>, <<0, 10>>>>

\* polygons handed to _point_in_polygon: the three above, None or [] (both
\* are "not polygon"), one and two vertices, a square with a vertex repeated
\* (a degenerate edge), and a flat polygon (horizontal edges only)
Poligonos ==
    {Cuadrado, Triangulo, FormaL, <<>>, <<<<0, 0>>>>, <<<<0, 0>>, <<1, 1>>>>,
     <<<<0, 0>>, <<0, 0>>, <<10, 0>>, <<10, 10>>, <<0, 10>>>>,
     <<<<0, 5>>, <<5, 5>>, <<10, 5>>>>}

\* the grid of points
Rejilla == (-2)..MaxRejilla

----------------------------------------------------------------------------
(* Domain Model: crops *)

NoCultivo == [id |-> NoId, hortaliza_id |-> 0, x |-> -1, y |-> -1]   \* None

\* ids of hortalizas_db of the Domain Model, in dict order (the code
\* configures four types; the model migrates the first two)
HortalizasDb == <<1, 2>>

\* a mutant: the radius test includes the boundary
verificar_colision_incl(cs, x, y, radio) ==
    \E i \in 1..Len(cs) : Dist2(cs[i].x, cs[i].y, x, y) <= radio * radio

\* a mutant: the collision test uses the lookup tolerance, not the radius given
verificar_colision_tolerancia(cs, x, y, radio) ==
    \E i \in 1..Len(cs) : Dist2(cs[i].x, cs[i].y, x, y) < Tolerancia * Tolerancia

\* Huerta._verificar_colision
verificar_colision(cs, x, y, radio) ==
    \E i \in 1..Len(cs) : Dist2(cs[i].x, cs[i].y, x, y) < radio * radio

\* the in-memory scan of obtener_planta_en_coordenada: first crop, in list
\* order, closer than the tolerance
RECURSIVE escanear_memoria(_, _, _, _)
escanear_memoria(cs, i, x, y) ==
    IF i > Len(cs) THEN NoCultivo
    ELSE IF Dist2(cs[i].x, cs[i].y, x, y) < Tolerancia * Tolerancia THEN cs[i]
    ELSE escanear_memoria(cs, i + 1, x, y)

\* "for cultivo in self.cultivos_activos: if cultivo.id == kuzu_result.get('id')"
RECURSIVE buscar_por_id(_, _, _)
buscar_por_id(cs, i, id) ==
    IF i > Len(cs) THEN NoCultivo
    ELSE IF cs[i].id = id THEN cs[i]
    ELSE buscar_por_id(cs, i + 1, id)

----------------------------------------------------------------------------
(* The graph store, as the queries of the code read and write it *)

\* the node tables the validation probes of the schema look for
TablasEsperadas == {"Hortaliza", "Planta", "Huerta", "Anotation", "Estructura"}

EmptyDb ==
    [tablas |-> TablasEsperadas, \* the node tables the store has (the schema is in place)
     plantas |-> {},            \* Planta nodes: [id, x, y]
     hortalizas |-> {},         \* Hortaliza nodes: ids
     huerta |-> FALSE,          \* the Huerta node "huerta_default"
     is_of_type |-> EmptyBag,   \* (Planta)-[:IS_OF_TYPE]->(Hortaliza): bag of <<planta id, hortaliza id>>
     located_in |-> EmptyBag,   \* LOCATED_IN and CONTAINS, created by one statement: bag of planta ids
     anotaciones |-> {},        \* Anotaciones nodes: ids
     annotates_planta |-> EmptyBag, \* (Anotaciones)-[:ANNOTATES_PLANTA]->(Planta): bag of <<anotacion id, planta id>>
     annotates |-> EmptyBag,    \* (Anotaciones)-[:ANNOTATES]->(Hortaliza): bag of <<anotacion id, hortaliza id>>
     estructuras |-> {},        \* Estructura nodes: [id, nombre, poligono]
     blocks_area |-> EmptyBag,  \* (Estructura)-[:BLOCKS_AREA]->(Huerta): bag of estructura ids
     anotation |-> {},          \* Anotation nodes (KuzuDBManager.add_annotation): ids
     has_anotation |-> EmptyBag, \* HAS_ANOTATION, HAS_ANOTATION_HUERTA, HAS_ANOTATION_HORTALIZA:
                                \* bag of <<label, source node, anotation id>>
     borrados |-> 0]            \* how often the store at db_path was deleted from outside

PlantaIds(d) == {p.id : p \in d.plantas}

Un(e) == SetToBag({e})

\* MATCH (p:Planta)-[:IS_OF_TYPE]->(h:Hortaliza)
\* WHERE abs(p.coordenadas_x - $x) <= $radius AND abs(p.coordenadas_y - $y) <= $radius
\* one row per matching relationship (k tells the copies of one apart)
FilasEnCaja(d, x, y, radius) ==
    UNION {{[id |-> ph[1].id, x |-> ph[1].x, y |-> ph[1].y, h |-> ph[2], k |-> k] :
                k \in 1..CopiesIn(<<ph[1].id, ph[2]>>, d.is_of_type)} :
            ph \in {q \in d.plantas \X d.hortalizas :
                        /\ Abs(q[1].x - x) <= radius
                        /\ Abs(q[1].y - y) <= radius}}

\* ORDER BY distancia: every listing of the rows in ascending distance
\* (rows at equal distance come in any order)
RECURSIVE OrdenadasPorDistancia(_, _, _)
OrdenadasPorDistancia(S, x, y) ==
    IF S = {} THEN {<<>>}
    ELSE LET primeras == {r \in S : \A q \in S :
                              Dist2(r.x, r.y, x, y) <= Dist2(q.x, q.y, x, y)}
         IN UNION {{<<r>> \o t : t \in OrdenadasPorDistancia(S \ {r}, x, y)} :
                       r \in primeras}

\* MATCH (p:Planta)-[:IS_OF_TYPE]->(h:Hortaliza {id: $hortaliza_id})
FilasDeTipo(d, h) ==
    UNION {{[id |-> q.id, x |-> q.x, y |-> q.y, h |-> h, k |-> k] :
                k \in 1..CopiesIn(<<q.id, h>>, d.is_of_type)} :
            q \in {q \in d.plantas : h \in d.hortalizas}}

\* ORDER BY p.fecha_siembra DESC: the model keeps no sowing dates, so the
\* rows come in any order
RECURSIVE EnCualquierOrden(_)
EnCualquierOrden(S) ==
    IF S = {} THEN {<<>>}
    ELSE UNION {{<<r>> \o t : t \in EnCualquierOrden(S \ {r})} : r \in S}

\* MATCH (e:Estructura) RETURN ... ORDER BY e.nombre
RECURSIVE OrdenadasPorNombre(_)
OrdenadasPorNombre(S) ==
    IF S = {} THEN <<>>
    ELSE LET e == CHOOSE e \in S : \A q \in S : e.nombre <= q.nombre
         IN <<e>> \o OrdenadasPorNombre(S \ {e})

\* ... ORDER BY distancia LIMIT limit: the answers the store can give
ConsultaCercanas(d, x, y, radius, limit) ==
    {SubSeq(s, 1, Min(limit, Len(s))) :
        s \in OrdenadasPorDistancia(FilasEnCaja(d, x, y, radius), x, y)}

----------------------------------------------------------------------------
(* Store Connection Manager: queries.  o is what one execute_query call    *)
(* does.  A result holds the return value, how many queries reached the    *)
(* store, whether an exception is propagating (exc) and whether a store    *)
(* query failed on the way (fallo).                                        *)

Leido(ret, n) == [ret |-> ret, issued |-> n, exc |-> FALSE, fallo |-> FALSE]

LanzaLectura(ret, n) == [ret |-> ret, issued |-> n, exc |-> TRUE, fallo |-> TRUE]

\* a mutant: the exception is not caught
capturar_nada(r, valor) == r

\* "except Exception as e: print(...); return valor"
capturar(r, valor) == IF r.exc THEN [r EXCEPT !.exc = FALSE, !.ret = valor] ELSE r

\* a mutant: an unavailable store is an error
execute_query_estricto(avail, o, filas) ==
    IF ~avail THEN [nulo |-> TRUE, filas |-> <<>>, exc |-> TRUE, issued |-> 0]
    ELSE IF o = "noconn" THEN [nulo |-> TRUE, filas |-> <<>>, exc |-> FALSE, issued |-> 0]
    ELSE IF o = "raise" THEN [nulo |-> TRUE, filas |-> <<>>, exc |-> TRUE, issued |-> 1]
    ELSE [nulo |-> FALSE, filas |-> filas, exc |-> FALSE, issued |-> 1]

\* a mutant: a failing query is logged and None is returned
execute_query_traga(avail, o, filas) ==
    IF ~avail THEN [nulo |-> TRUE, filas |-> <<>>, exc |-> FALSE, issued |-> 0]
    ELSE IF o = "noconn" THEN [nulo |-> TRUE, filas |-> <<>>, exc |-> FALSE, issued |-> 0]
    ELSE IF o = "raise" THEN [nulo |-> TRUE, filas |-> <<>>, exc |-> FALSE, issued |-> 1]
    ELSE [nulo |-> FALSE, filas |-> filas, exc |-> FALSE, issued |-> 1]

\* KuzuDBManager.execute_query: a cursor over the rows the query selects,
\* None (nulo), or the store's exception re-raised
execute_query(avail, o, filas) ==
    IF ~avail THEN [nulo |-> TRUE, filas |-> <<>>, exc |-> FALSE, issued |-> 0]
    ELSE IF o = "noconn" THEN [nulo |-> TRUE, filas |-> <<>>, exc |-> FALSE, issued |-> 0]
    ELSE IF o = "raise" THEN [nulo |-> TRUE, filas |-> <<>>, exc |-> TRUE, issued |-> 1]
    ELSE [nulo |-> FALSE, filas |-> filas, exc |-> FALSE, issued |-> 1]

\* "result = self.execute_query(...); if result: while result.has_next(): ..."
\* inside a try block: the rows read, or the exception
leer_filas(avail, o, filas) ==
    LET result == execute_query(avail, o, filas)
    IN IF result.exc THEN LanzaLectura(<<>>, result.issued)
       ELSE IF result.nulo THEN Leido(<<>>, result.issued)
       ELSE Leido(result.filas, result.issued)

\* KuzuDBManager.query_plantas_by_coordinates: the rows, or [] when the
\* store is unavailable, gives no connection, or the query raises
query_plantas_by_coordinates(avail, o, filas) ==
    IF ~avail THEN Leido(<<>>, 0)
    ELSE capturar(leer_filas(avail, o, filas), <<>>)

\* KuzuDBManager.query_all_estructuras
query_all_estructuras(avail, o, filas) ==
    IF ~avail THEN Leido(<<>>, 0)
    ELSE capturar(leer_filas(avail, o, filas), <<>>)

\* a mutant: the scan stops at the first structure that contains the point
check_coordinate_primera(avail, o, filas, x, y) ==
    IF ~avail THEN Leido(<<>>, 0)
    ELSE LET estructuras == query_all_estructuras(avail, o, filas)
             dentro == SelectSeq(estructuras.ret,
                                 LAMBDA e : point_in_polygon(x, y, e.poligono))
         IN [estructuras EXCEPT !.ret = SubSeq(dentro, 1, Min(1, Len(dentro)))]

\* a mutant: without the store the structures of the configuration are scanned
check_coordinate_config(avail, o, filas, x, y) ==
    IF ~avail
    THEN Leido(SelectSeq(EstructurasToml, LAMBDA e : point_in_polygon(x, y, e.poligono)), 0)
    ELSE LET estructuras == query_all_estructuras(avail, o, filas)
         IN [estructuras EXCEPT !.ret =
                SelectSeq(@, LAMBDA e : point_in_polygon(x, y, e.poligono))]

\* KuzuDBManager.check_coordinate_in_structure
check_coordinate_in_structure(avail, o, filas, x, y) ==
    IF ~avail THEN Leido(<<>>, 0)
    ELSE LET estructuras == query_all_estructuras(avail, o, filas)
         IN [estructuras EXCEPT !.ret =
                SelectSeq(@, LAMBDA e : point_in_polygon(x, y, e.poligono))]

\* api_check_coordinates of the web GUI: connected is db_status['connected'],
\* c is what kuzu_manager.connect() does; the structure query runs on the
\* connection made here
api_check_coordinates(avail, connected, c, o, filas, x, y) ==
    IF ~connected \/ ~avail \/ c = "noconn"
    THEN [success |-> FALSE, usable |-> FALSE, structures |-> <<>>]
    ELSE LET intersecting == check_coordinate_in_structure(avail, o, filas, x, y).ret
         IN [success |-> TRUE, usable |-> intersecting = <<>>, structures |-> intersecting]

EstructuraIds(d) == {e.id : e \in d.estructuras}

\* the loop of KuzuDBManager._load_estructuras_from_toml, from the i-th
\* structure on: queries 2i-1 (CREATE node) and 2i (CREATE relationship) are
\* those of the i-th structure; a failure is caught per structure
RECURSIVE cargar_desde(_, _, _, _)
cargar_desde(d, es, i, o) ==
    IF i > Len(es) THEN d
    ELSE IF o[2 * i - 1] = "raise" \/ es[i].id \in EstructuraIds(d)
         THEN cargar_desde(d, es, i + 1, o)
    ELSE LET d1 == [d EXCEPT !.estructuras = @ \cup {es[i]}]
             d2 == IF o[2 * i] = "ok" /\ d1.huerta
                   THEN [d1 EXCEPT !.blocks_area = @ (+) Un(es[i].id)]
                   ELSE d1
         IN cargar_desde(d2, es, i + 1, o)

\* KuzuDBManager._load_estructuras_from_toml(conn=None)
load_estructuras_from_toml(d, avail, c, es, o) ==
    IF ~avail \/ c = "noconn" THEN d
    ELSE cargar_desde(d, es, 1, o)

\* the statements of database/seeds/initial_data.sql: the Huerta node, the
\* sample Planta nodes, and a statement naming "Hortaliza {"
SemillasSql ==
    <<[kind |-> "huerta", id |-> GenId("huerta_default", 0), x |-> 0, y |-> 0],
      [kind |-> "planta", id |-> GenId("tomate_001", 0), x |-> 100, y |-> 100],
      [kind |-> "planta", id |-> GenId("lechuga_001", 0), x |-> 200, y |-> 100],
      [kind |-> "planta", id |-> GenId("zanahoria_001", 0), x |-> 300, y |-> 100],
      [kind |-> "hortaliza", id |-> GenId("hortaliza", 1), x |-> 0, y |-> 0]>>

\* toml_loader.get_hortalizas(): the ids of the vegetable types of the
\* configuration ([[hortalizas]]), the first two of them
HortalizasToml == <<1, 2>>

\* relationships = [("tomate_001", 1), ("lechuga_001", 2), ("zanahoria_001", 3)]
RelacionesEjemplo ==
    <<<<GenId("tomate_001", 0), 1>>, <<GenId("lechuga_001", 0), 2>>,
      <<GenId("zanahoria_001", 0), 3>>>>

\* the loop of KuzuDBManager._load_sql_seeds from the i-th command on: a
\* command naming Hortaliza is skipped, a failing command is logged and the
\* loop goes on; the store refuses a node whose key it holds
RECURSIVE sembrar_desde(_, _, _, _)
sembrar_desde(d, cmds, i, o) ==
    IF i > Len(cmds) THEN d
    ELSE LET s == cmds[i]
             d1 == IF s.kind = "hortaliza" \/ o[i] = "raise" THEN d
                   ELSE IF s.kind = "huerta" THEN [d EXCEPT !.huerta = TRUE]
                   ELSE IF s.id \in PlantaIds(d) THEN d
                   ELSE [d EXCEPT !.plantas = @ \cup {[id |-> s.id, x |-> s.x, y |-> s.y]}]
         IN sembrar_desde(d1, cmds, i + 1, o)

\* KuzuDBManager._load_sql_seeds(conn)
load_sql_seeds(d, o) == sembrar_desde(d, SemillasSql, 1, o)

\* the loop of KuzuDBManager._load_hortalizas_from_toml: one CREATE per
\* configured type, a failure caught per type
RECURSIVE cargar_hortalizas_desde(_, _, _, _)
cargar_hortalizas_desde(d, hs, i, o) ==
    IF i > Len(hs) THEN d
    ELSE cargar_hortalizas_desde(IF o[i] = "raise" \/ hs[i] \in d.hortalizas THEN d
                                 ELSE [d EXCEPT !.hortalizas = @ \cup {hs[i]}],
                                 hs, i + 1, o)

\* KuzuDBManager._load_hortalizas_from_toml(conn)
load_hortalizas_from_toml(d, o) == cargar_hortalizas_desde(d, HortalizasToml, 1, o)

\* the loop of KuzuDBManager._create_sample_relationships: MATCH the crop and
\* the type, CREATE the relationship between them
RECURSIVE relacionar_desde(_, _, _, _)
relacionar_desde(d, rs, i, o) ==
    IF i > Len(rs) THEN d
    ELSE relacionar_desde(IF o[i] = "ok" /\ rs[i][1] \in PlantaIds(d)
                                         /\ rs[i][2] \in d.hortalizas
                          THEN [d EXCEPT !.is_of_type = @ (+) Un(rs[i])]
                          ELSE d,
                          rs, i + 1, o)

\* KuzuDBManager._create_sample_relationships(conn)
create_sample_relationships(d, o) == relacionar_desde(d, RelacionesEjemplo, 1, o)

\* the statements of one load_initial_data: seeds, vegetable types,
\* structures (node and relationship), sample relationships
NSemillas == Len(SemillasSql)
NHortalizas == Len(HortalizasToml)
NEstructuras == 2 * Len(EstructurasToml)
NCarga == NSemillas + NHortalizas + NEstructuras + Len(RelacionesEjemplo)

\* the CREATE statements of one load_initial_data that the store refuses
\* because it holds the key already (o tells which statements reach it)
Rechazadas(d, o) ==
    Cardinality({i \in 1..NSemillas :
                    /\ o[i] = "ok"
                    /\ \/ SemillasSql[i].kind = "huerta" /\ d.huerta
                       \/ SemillasSql[i].kind = "planta" /\ SemillasSql[i].id \in PlantaIds(d)})
    + Cardinality({i \in 1..NHortalizas :
                    o[NSemillas + i] = "ok" /\ HortalizasToml[i] \in d.hortalizas})
    + Cardinality({i \in 1..Len(EstructurasToml) :
                    /\ o[NSemillas + NHortalizas + 2 * i - 1] = "ok"
                    /\ EstructurasToml[i].id \in EstructuraIds(d)})

\* KuzuDBManager.load_initial_data: one connection c for the four loaders
load_initial_data(d, avail, c, o) ==
    IF ~avail \/ c = "noconn" THEN d
    ELSE LET d1 == load_sql_seeds(d, SubSeq(o, 1, NSemillas))
             d2 == load_hortalizas_from_toml(d1,
                       SubSeq(o, NSemillas + 1, NSemillas + NHortalizas))
             d3 == cargar_desde(d2, EstructurasToml, 1,
                       SubSeq(o, NSemillas + NHortalizas + 1,
                              NSemillas + NHortalizas + NEstructuras))
         IN create_sample_relationships(d3,
                SubSeq(o, NSemillas + NHortalizas + NEstructuras + 1, NCarga))

\* the statements of database/schemas/garden_schema.sql, comments
\* stripped: one CREATE NODE TABLE per kind
SchemaSql == <<"Hortaliza", "Planta", "Huerta", "Anotation", "Estructura">>

\* validation_queries: "MATCH (n:Hortaliza) RETURN count(n) LIMIT 1", ...
ConsultasValidacion == <<"Hortaliza", "Planta", "Huerta", "Anotation", "Estructura">>

\* the probes of KuzuDBManager._is_database_initialized
ConsultasInicializada == <<"Anotation", "Estructura", "Hortaliza">>

\* the queries of one schema run: the statements, then the validation probes
NEsquema == Len(SchemaSql) + Len(ConsultasValidacion)

\* the queries of one connect(): the probes, then a schema run
NConectar == Len(ConsultasInicializada) + NEsquema

\* "for command in commands: try: conn.execute(command) except ...": a
\* failing statement (the table exists already, or the store fails) is
\* logged and the loop goes on
RECURSIVE ejecutar_desde(_, _, _, _)
ejecutar_desde(e, cmds, i, o) ==
    IF i > Len(cmds) THEN e
    ELSE ejecutar_desde([tablas |-> IF o[i] = "ok" THEN e.tablas \cup {cmds[i]}
                                    ELSE e.tablas,
                         intentadas |-> e.intentadas + 1], cmds, i + 1, o)

\* failed_tables: a probe raises when its table is missing or the store fails
failed_tables(tablas, qs, o) ==
    {qs[j] : j \in {i \in DOMAIN qs : qs[i] \notin tablas \/ o[i] = "raise"}}

\* a mutant: the schema state is remembered as ready, the store is not probed
is_database_initialized_en_cache(tablas, conn, o) == conn

\* KuzuDBManager._is_database_initialized(conn)
is_database_initialized(tablas, conn, o) ==
    conn /\ failed_tables(tablas, ConsultasInicializada, o) = {}

\* what a schema run gives back: the tables of the store after it, the
\* value returned ("True", "False", or "None" for a bare return) and the
\* statements it handed to the store
Esquema(tablas, devuelve, n) == [tablas |-> tablas, devuelve |-> devuelve, intentadas |-> n]

\* the body that initialize_schema and _initialize_schema_with_connection
\* share, from the check of the schema file on; sin_archivo is what the
\* function returns when the file is not there.  Reading the file is inside
\* the try ("Error general inicializando schema": return False)
esquema_con(tablas, archivo, o, sin_archivo) ==
    IF archivo = "ausente" THEN Esquema(tablas, sin_archivo, 0)
    ELSE IF archivo = "ilegible" THEN Esquema(tablas, "False", 0)
    ELSE LET e == ejecutar_desde([tablas |-> tablas, intentadas |-> 0], SchemaSql, 1, o)
             f == failed_tables(e.tablas, ConsultasValidacion,
                                SubSeq(o, Len(SchemaSql) + 1, NEsquema))
         IN Esquema(e.tablas, IF f # {} THEN "False" ELSE "True", e.intentadas)

\* KuzuDBManager._initialize_schema_with_connection(conn)
initialize_schema_with_connection(tablas, avail, conn, archivo, o) ==
    IF ~avail \/ ~conn THEN Esquema(tablas, "False", 0)
    ELSE esquema_con(tablas, archivo, o, "False")

\* what connect gives back: conn is FALSE for None; esquema tells what the
\* automatic schema creation returned, if it ran
Conexion(tablas, conn, exc, esquema) ==
    [tablas |-> tablas, conn |-> conn, exc |-> exc, esquema |-> esquema]

\* the try block of KuzuDBManager.connect: kuzu.Database / kuzu.Connection
\* are constructed or raise, then the schema is probed and created if the
\* probe fails
connect_try(tablas, construye, archivo, o) ==
    IF construye = "raise" THEN Conexion(tablas, FALSE, TRUE, "none")
    ELSE IF is_database_initialized(tablas, TRUE, SubSeq(o, 1, Len(ConsultasInicializada)))
         THEN Conexion(tablas, TRUE, FALSE, "inicializada")
    ELSE LET r == initialize_schema_with_connection(tablas, TRUE, TRUE, archivo,
                      SubSeq(o, Len(ConsultasInicializada) + 1, NConectar))
         IN Conexion(r.tablas, TRUE, FALSE, r.devuelve)

\* a mutant: no connection is given when the automatic schema creation fails
connect_exige_esquema(tablas, avail, construye, archivo, o) ==
    IF ~avail THEN Conexion(tablas, FALSE, FALSE, "none")
    ELSE LET r == connect_try(tablas, construye, archivo, o)
         IN IF r.exc \/ r.esquema = "False" THEN [r EXCEPT !.exc = FALSE, !.conn = FALSE]
            ELSE r

\* KuzuDBManager.connect
connect(tablas, avail, construye, archivo, o) ==
    IF ~avail THEN Conexion(tablas, FALSE, FALSE, "none")
    ELSE LET r == connect_try(tablas, construye, archivo, o)
         IN IF r.exc THEN [r EXCEPT !.exc = FALSE, !.conn = FALSE]   \* except Exception: return None
            ELSE r

\* KuzuDBManager.initialize_schema: self.conn is None, so the connection is
\* connect()'s (queries o1); the schema run's queries are o2
initialize_schema(tablas, avail, construye, archivo, o1, o2) ==
    IF ~avail THEN Esquema(tablas, "False", 0)
    ELSE LET k == connect(tablas, avail, construye, archivo, o1)
         IN IF ~k.conn THEN Esquema(k.tablas, "False", 0)
            ELSE esquema_con(k.tablas, archivo, o2, "None")

\* What an operation does to connections, in order: "open" (kuzu.Connection
\* constructed by connect()), "execute" (conn.execute), "close"
\* (connection.close()), "read" (has_next / get_next on a cursor the
\* connection produced).  Connection 0 is the one the caller supplied, 1
\* the one the operation opened.
Ev(e, c) == [ev |-> e, c |-> c]

\* KuzuDBManager.execute_query: "conn = connection if connection else
\* self.connect()", the query, and "finally: if not connection: self.close(conn)"
traza_execute_query(avail, connection, o) ==
    IF ~avail THEN <<>>
    ELSE IF connection THEN <<Ev("execute", 0)>>
    ELSE IF o = "noconn" THEN <<>>
    ELSE <<Ev("open", 1), Ev("execute", 1), Ev("close", 1)>>

\* KuzuDBManager.connect: "db = kuzu.Database(self.db_path); conn =
\* kuzu.Connection(db)" on every call, then the probes on that connection;
\* the connection is returned, not closed and not kept in self.conn
traza_connect(avail, construye) ==
    IF ~avail \/ construye = "raise" THEN <<>>
    ELSE <<Ev("open", 1), Ev("execute", 1)>>

\* KuzuDBManager.initialize_schema: "conn = self.conn if self.conn else
\* self.connect()", the statements and the probes; no close
traza_initialize_schema(avail, construye, archivo) ==
    IF ~avail \/ construye = "raise" THEN <<>>
    ELSE IF archivo = "ok" THEN <<Ev("open", 1), Ev("execute", 1)>>
    ELSE <<Ev("open", 1)>>

\* KuzuDBManager.load_initial_data: "with self.get_connection() as conn",
\* the four loaders; get_connection's finally only lowers _connection_count
traza_load_initial_data(avail, c) ==
    IF ~avail \/ c = "noconn" THEN <<>>
    ELSE <<Ev("open", 1), Ev("execute", 1)>>

\* one execute_query of a caller that supplies no connection, on the
\* connection c it opens and closes, and then the caller's
\* "if result and result.has_next()" when lee: the cursor is read if it is
\* not None
traza_consulta(c, o, lee) ==
    IF o = "noconn" THEN <<>>
    ELSE <<Ev("open", c), Ev("execute", c), Ev("close", c)>>
         \o (IF lee /\ o = "ok" THEN <<Ev("read", c)>> ELSE <<>>)

\* KuzuDBManager.query_plantas_by_coordinates: execute_query, then
\* "if result and result.has_next(): while result.has_next(): result.get_next()"
traza_query_plantas_by_coordinates(avail, o) ==
    IF ~avail THEN <<>> ELSE traza_consulta(1, o, TRUE)

\* the loop of ModelAdapter.migrate_hortalizas_to_kuzu from the i-th type on:
\* query 2i-1 on connection 2i-1, its cursor read by "existing.has_next()",
\* and query 2i on connection 2i
RECURSIVE traza_migrar_desde(_, _, _, _)
traza_migrar_desde(d, hs, i, o) ==
    IF i > Len(hs) THEN <<>>
    ELSE LET t1 == traza_consulta(2 * i - 1, o[2 * i - 1], TRUE)
             t2 == t1 \o traza_consulta(2 * i, o[2 * i], FALSE)
         IN IF o[2 * i - 1] = "raise" THEN t1
            ELSE IF o[2 * i - 1] = "ok" /\ hs[i] \in d.hortalizas
                 THEN t1 \o traza_migrar_desde(d, hs, i + 1, o)
            ELSE IF o[2 * i] = "raise" \/ (o[2 * i] = "ok" /\ hs[i] \in d.hortalizas)
                 THEN t2
            ELSE t2 \o traza_migrar_desde(IF o[2 * i] = "ok"
                                          THEN [d EXCEPT !.hortalizas = @ \cup {hs[i]}]
                                          ELSE d,
                                          hs, i + 1, o)

\* ModelAdapter.migrate_hortalizas_to_kuzu
traza_migrate_hortalizas_to_kuzu(d, avail, hs, o) ==
    IF ~avail THEN <<>> ELSE traza_migrar_desde(d, hs, 1, o)

\* the connections a trace opened and did not close
SinCerrar(t) ==
    {c \in {t[i].c : i \in DOMAIN t} :
        /\ \E i \in DOMAIN t : t[i] = Ev("open", c)
        /\ ~\E i \in DOMAIN t : t[i] = Ev("close", c)}

\* the connections of its own an operation leaves open when it returns:
\* those it did not close are unreferenced, and are closed when the garbage
\* collector finalizes them, at the return (recolecta) or later
abiertas_al_volver(t, recolecta) == IF recolecta THEN {} ELSE SinCerrar(t)

\* self.conn and self.db: __init__ sets both to None and nothing assigns them
SinManejadores == [conn |-> "none", db |-> "none"]

\* connection.close() of the client: the connection is closed afterwards;
\* on a connection that was closed already the client does nothing or raises
cerrar_cliente(estado, o) ==
    [estado |-> "closed", exc |-> estado = "closed" /\ o = "raise"]

\* a mutant: close(connection) without its try / except
close_sin_except(connection, estado, m, o) ==
    IF connection
    THEN LET r == cerrar_cliente(estado, o)
         IN [estado |-> r.estado, m |-> m, exc |-> r.exc]
    ELSE [estado |-> estado, m |-> SinManejadores, exc |-> FALSE]

\* KuzuDBManager.close(connection=None): with a connection, "try:
\* connection.close() except: pass"; without, the shared handles m are closed
\* if set, each in its own try / except / finally, and set to None
close(connection, estado, m, o) ==
    IF connection
    THEN [estado |-> cerrar_cliente(estado, o).estado, m |-> m, exc |-> FALSE]
    ELSE [estado |-> estado, m |-> [conn |-> "none", db |-> "none"], exc |-> FALSE]

\* the id KuzuDBManager.add_annotation makes from the clock, to the second
SelloId(t) == GenId("anotacion_ts", t)

\* MATCH (a:Anotation) RETURN ... ORDER BY a.fecha DESC (fecha is the
\* second the id was made from)
RECURSIVE OrdenadasPorFecha(_)
OrdenadasPorFecha(S) ==
    IF S = {} THEN <<>>
    ELSE LET a == CHOOSE a \in S : \A q \in S : a.n >= q.n
         IN <<a>> \o OrdenadasPorFecha(S \ {a})

\* KuzuDBManager.query_all_annotations
query_all_annotations(avail, o, filas) ==
    IF ~avail THEN Leido(<<>>, 0)
    ELSE capturar(leer_filas(avail, o, filas), <<>>)

----------------------------------------------------------------------------
(* Synchronization Adapter.  o[k] is what the k-th execute_query call of   *)
(* the operation does.  A write gives back the store after it as well.     *)

Issued(o, k) == Cardinality({i \in 1..k : o[i] # "noconn"})

Hecho(d, ret, n) == [db |-> d, ret |-> ret, issued |-> n, exc |-> FALSE, fallo |-> FALSE]

Lanza(d, n) == [db |-> d, ret |-> FALSE, issued |-> n, exc |-> TRUE, fallo |-> TRUE]

\* the try block of ModelAdapter.create_planta_in_kuzu
create_planta_try(d, c, o) ==
    IF o[1] = "raise" THEN Lanza(d, 1)
    ELSE IF o[1] = "ok" /\ c.id \in PlantaIds(d) THEN Hecho(d, TRUE, 1)   \* "Ya existe"
    ELSE IF o[2] = "raise" \/ (o[2] = "ok" /\ c.id \in PlantaIds(d))
         THEN Lanza(d, Issued(o, 2))
    ELSE LET d2 == IF o[2] = "ok"
                   THEN [d EXCEPT !.plantas = @ \cup {[id |-> c.id, x |-> c.x, y |-> c.y]}]
                   ELSE d
             d3 == IF o[3] = "ok" /\ c.id \in PlantaIds(d2) /\ c.hortaliza_id \in d2.hortalizas
                   THEN [d2 EXCEPT !.is_of_type = @ (+) Un(<<c.id, c.hortaliza_id>>)]
                   ELSE d2
             d4 == IF o[4] = "ok" /\ c.id \in PlantaIds(d3) /\ d3.huerta
                   THEN [d3 EXCEPT !.located_in = @ (+) Un(c.id)]
                   ELSE d3
         IN IF o[3] = "raise" THEN Lanza(d2, Issued(o, 3))
            ELSE IF o[4] = "raise" THEN Lanza(d3, Issued(o, 4))
            ELSE Hecho(d4, TRUE, Issued(o, 4))

\* ModelAdapter.create_planta_in_kuzu
create_planta_in_kuzu(d, avail, c, o) ==
    IF ~avail THEN Hecho(d, FALSE, 0)
    ELSE capturar(create_planta_try(d, c, o), FALSE)

\* ModelAdapter.query_planta_by_coordinates: plantas[0] if plantas else None
\* (None is the empty sequence, a row is a sequence of one)
query_planta_by_coordinates(avail, o, filas) ==
    IF ~avail THEN Leido(<<>>, 0)
    ELSE LET plantas == query_plantas_by_coordinates(avail, o, filas)
         IN capturar([plantas EXCEPT !.ret = SubSeq(@, 1, Min(1, Len(@)))], <<>>)

\* ModelAdapter.get_plantas_by_type
get_plantas_by_type(avail, o, filas) ==
    IF ~avail THEN Leido(<<>>, 0)
    ELSE capturar(leer_filas(avail, o, filas), <<>>)

\* ModelAdapter.get_spatial_query
get_spatial_query(avail, o, filas) ==
    IF ~avail THEN Leido(<<>>, 0)
    ELSE capturar(leer_filas(avail, o, filas), <<>>)

\* the try block of ModelAdapter.create_anotacion_in_kuzu
create_anotacion_try(d, a, o) ==
    IF o[1] = "raise" THEN Lanza(d, 1)
    ELSE IF o[1] = "ok" /\ a.id \in d.anotaciones THEN Hecho(d, TRUE, 1)   \* "Ya existe"
    ELSE IF o[2] = "raise" \/ (o[2] = "ok" /\ a.id \in d.anotaciones)
         THEN Lanza(d, Issued(o, 2))
    ELSE LET d2 == IF o[2] = "ok" THEN [d EXCEPT !.anotaciones = @ \cup {a.id}] ELSE d
         IN IF a.cultivo_id # NoId                            \* if anotacion.cultivo_id:
            THEN IF o[3] = "raise" THEN Lanza(d2, Issued(o, 3))
                 ELSE Hecho(IF o[3] = "ok" /\ a.id \in d2.anotaciones
                                           /\ a.cultivo_id \in PlantaIds(d2)
                            THEN [d2 EXCEPT !.annotates_planta = @ (+) Un(<<a.id, a.cultivo_id>>)]
                            ELSE d2,
                            TRUE, Issued(o, 3))
            ELSE IF a.hortaliza_id # NoHortaliza /\ a.hortaliza_id # 0   \* elif anotacion.hortaliza_id:
            THEN IF o[3] = "raise" THEN Lanza(d2, Issued(o, 3))
                 ELSE Hecho(IF o[3] = "ok" /\ a.id \in d2.anotaciones
                                           /\ a.hortaliza_id \in d2.hortalizas
                            THEN [d2 EXCEPT !.annotates = @ (+) Un(<<a.id, a.hortaliza_id>>)]
                            ELSE d2,
                            TRUE, Issued(o, 3))
            ELSE Hecho(d2, TRUE, Issued(o, 2))

\* ModelAdapter.create_anotacion_in_kuzu
create_anotacion_in_kuzu(d, avail, a, o) ==
    IF ~avail THEN Hecho(d, FALSE, 0)
    ELSE capturar(create_anotacion_try(d, a, o), FALSE)

\* a mutant: the loop creates every type without asking whether it exists
RECURSIVE migrar_sin_comprobar(_, _, _, _)
migrar_sin_comprobar(d, hs, i, o) ==
    IF i > Len(hs) THEN Hecho(d, TRUE, Issued(o, 2 * Len(hs)))
    ELSE IF o[2 * i] = "raise" \/ (o[2 * i] = "ok" /\ hs[i] \in d.hortalizas)
         THEN Lanza(d, Issued(o, 2 * i))
    ELSE migrar_sin_comprobar(IF o[2 * i] = "ok"
                              THEN [d EXCEPT !.hortalizas = @ \cup {hs[i]}]
                              ELSE d,
                              hs, i + 1, o)

\* the loop of ModelAdapter.migrate_hortalizas_to_kuzu, from the i-th
\* vegetable type on: queries 2i-1 (exists?) and 2i (create) are those of
\* the i-th type
RECURSIVE migrar_desde(_, _, _, _)
migrar_desde(d, hs, i, o) ==
    IF i > Len(hs) THEN Hecho(d, TRUE, Issued(o, 2 * Len(hs)))
    ELSE IF o[2 * i - 1] = "raise" THEN Lanza(d, Issued(o, 2 * i - 1))
    ELSE IF o[2 * i - 1] = "ok" /\ hs[i] \in d.hortalizas
         THEN migrar_desde(d, hs, i + 1,                      \* "Ya existe, saltar":
                           [o EXCEPT ![2 * i] = "noconn"])    \* the create is not issued
    ELSE IF o[2 * i] = "raise" \/ (o[2 * i] = "ok" /\ hs[i] \in d.hortalizas)
         THEN Lanza(d, Issued(o, 2 * i))
    ELSE migrar_desde(IF o[2 * i] = "ok"
                      THEN [d EXCEPT !.hortalizas = @ \cup {hs[i]}]
                      ELSE d,
                      hs, i + 1, o)

\* ModelAdapter.migrate_hortalizas_to_kuzu
migrate_hortalizas_to_kuzu(d, avail, hs, o) ==
    IF ~avail THEN Hecho(d, FALSE, 0)
    ELSE capturar(migrar_desde(d, hs, 1, o), FALSE)

\* target ids the web GUI hands to add_annotation: none, a crop id, a
\* number as text, a text that is no number
NumId(k) == GenId("num", k)
TextoId == GenId("texto", 0)

\* the try block of KuzuDBManager.add_annotation; t is the second the clock
\* shows, the relationship is made only where its MATCH finds both nodes
add_annotation_try(d, t, target_type, target_id, o) ==
    IF o[1] = "raise" \/ (o[1] = "ok" /\ SelloId(t) \in d.anotation) THEN Lanza(d, 1)
    ELSE LET id == SelloId(t)
             d1 == IF o[1] = "ok" THEN [d EXCEPT !.anotation = @ \cup {id}] ELSE d
             rel(label, src, found) ==
                 IF o[2] = "raise" THEN Lanza(d1, Issued(o, 2))
                 ELSE Hecho(IF o[2] = "ok" /\ found /\ id \in d1.anotation
                            THEN [d1 EXCEPT !.has_anotation = @ (+) Un(<<label, src, id>>)]
                            ELSE d1,
                            TRUE, Issued(o, 2))
         IN IF target_type = "plant" /\ target_id # NoId
            THEN rel("HAS_ANOTATION", target_id, target_id \in PlantaIds(d1))
            ELSE IF target_type = "garden"
            THEN rel("HAS_ANOTATION_HUERTA", GenId("huerta_default", 0), d1.huerta)
            ELSE IF target_type = "vegetable" /\ target_id # NoId
            THEN IF target_id.pfx # "num" THEN Lanza(d1, Issued(o, 1))    \* int(target_id): ValueError
                 ELSE rel("HAS_ANOTATION_HORTALIZA", NumId(target_id.n),
                          target_id.n \in d1.hortalizas)
            ELSE Hecho(d1, TRUE, Issued(o, 1))

\* KuzuDBManager.add_annotation
add_annotation(d, avail, t, target_type, target_id, o) ==
    IF ~avail THEN Hecho(d, FALSE, 0)
    ELSE capturar(add_annotation_try(d, t, target_type, target_id, o), FALSE)

----------------------------------------------------------------------------
(* Domain Model operations *)

Persistido(hk, r) == IF ~hk THEN "skipped" ELSE IF r.ret THEN "ok" ELSE "failed"

\* a mutant: the crop is kept only if the store write went through
agregar_cultivo_activo_atomico(cs, d, hk, avail, id, h, x, y, o) ==
    IF verificar_colision(cs, x, y, Radio)
    THEN [cultivos |-> cs, db |-> d, raised |-> TRUE, id |-> NoId,
          issued |-> 0, store |-> "skipped"]
    ELSE LET c == [id |-> IF id = NoId THEN GenId("cultivo", Len(cs) + 1) ELSE id,
                   hortaliza_id |-> h, x |-> x, y |-> y]
             r == IF hk THEN create_planta_in_kuzu(d, avail, c, o)
                  ELSE Hecho(d, FALSE, 0)
         IN [cultivos |-> IF hk /\ ~r.ret THEN cs ELSE Append(cs, c),
             db |-> r.db, raised |-> hk /\ ~r.ret, id |-> c.id,
             issued |-> r.issued, store |-> Persistido(hk, r)]

\* Huerta.agregar_cultivo_activo
agregar_cultivo_activo(cs, d, hk, avail, id, h, x, y, o) ==
    IF verificar_colision(cs, x, y, Radio)
    THEN [cultivos |-> cs, db |-> d, raised |-> TRUE, id |-> NoId,      \* raise ValueError
          issued |-> 0, store |-> "skipped"]
    ELSE LET c == [id |-> IF id = NoId THEN GenId("cultivo", Len(cs) + 1) ELSE id,
                   hortaliza_id |-> h, x |-> x, y |-> y]
             r == IF hk THEN create_planta_in_kuzu(d, avail, c, o)
                  ELSE Hecho(d, FALSE, 0)
         IN [cultivos |-> Append(cs, c), db |-> r.db, raised |-> FALSE, id |-> c.id,
             issued |-> r.issued, store |-> Persistido(hk, r)]

\* Huerta.obtener_planta_en_coordenada: the store's nearest row first, looked
\* up in memory by id; else the in-memory scan
obtener_planta_en_coordenada(cs, hk, avail, x, y, o, filas) ==
    LET kuzu_result == IF hk THEN query_planta_by_coordinates(avail, o, filas).ret ELSE <<>>
        cultivo == IF kuzu_result # <<>> THEN buscar_por_id(cs, 1, kuzu_result[1].id)
                   ELSE NoCultivo
    IN IF cultivo # NoCultivo THEN [crop |-> cultivo, via |-> "store"]
       ELSE [crop |-> escanear_memoria(cs, 1, x, y), via |-> "memory"]

\* Huerta.agregar_anotacion
agregar_anotacion(as, d, hk, avail, a, o) ==
    LET b == [a EXCEPT !.id = IF a.id = NoId THEN GenId("anotacion", Len(as) + 1) ELSE a.id]
        r == IF hk THEN create_anotacion_in_kuzu(d, avail, b, o)
             ELSE Hecho(d, FALSE, 0)
    IN [anotaciones |-> Append(as, b), db |-> r.db, raised |-> FALSE, id |-> b.id,
        issued |-> r.issued, store |-> Persistido(hk, r)]

\* a mutant: the vegetable-type query ignores the specificity level
obtener_anotaciones_por_tipo_planta_sin_nivel(as, hortaliza_id) ==
    SelectSeq(as, LAMBDA a : a.hortaliza_id = hortaliza_id)

\* Huerta.obtener_anotaciones_por_cultivo
obtener_anotaciones_por_cultivo(as, cultivo_id) ==
    SelectSeq(as, LAMBDA a : a.cultivo_id = cultivo_id)

\* Huerta.obtener_anotaciones_por_tipo_planta
obtener_anotaciones_por_tipo_planta(as, hortaliza_id) ==
    SelectSeq(as, LAMBDA a : a.nivel = "tipo_planta" /\ a.hortaliza_id = hortaliza_id)

----------------------------------------------------------------------------
(* State machine *)

\* the request threads that call the Domain Model, and a thread outside
\* agregar_cultivo_activo
Hilos == {1, 2}
HiloLibre == [pc |-> "idle", c |-> NoCultivo]
SinHilos == [t \in Hilos |-> HiloLibre]

NoAnotacion == [id |-> NoId, cultivo_id |-> NoId, hortaliza_id |-> NoHortaliza, nivel |-> "none"]

NoLast ==
    [op |-> "init", x |-> 0, y |-> 0, id |-> NoId, crop |-> NoCultivo, ret |-> FALSE,
     raised |-> FALSE, issued |-> 0, store |-> "skipped", via |-> "none", rows |-> <<>>,
     o |-> "ok", fallo |-> FALSE, nulo |-> FALSE, radius |-> 0, limit |-> 0,
     success |-> FALSE, usable |-> FALSE, kind |-> "none", h |-> NoHortaliza,
     a |-> NoAnotacion, rechazadas |-> 0, esquema |-> "none", devuelve |-> "none",
     intentadas |-> 0, archivo |-> "none", traza |-> <<>>, abiertas |-> {},
     conexion |-> FALSE, estado |-> "none", manejadores |-> SinManejadores,
     poligono |-> <<>>, divisores |-> {}]

\* a fresh store; the manager found the kuzu library or not; the Domain
\* Model is constructed (Huerta.__init__ sets _kuzu_available from the manager)
Init ==
    /\ cultivos_activos = <<>>
    /\ anotaciones = <<>>
    /\ hilos = SinHilos
    /\ kuzu_available \in BOOLEAN
    /\ huerta_kuzu = kuzu_available
    /\ db = EmptyDb
    /\ last = NoLast

\* what the n queries of one operation do, each drawn from oc; once one
\* raises the operation is over, so the outcomes after it are immaterial and
\* fixed to "ok"
Outcomes(n, oc) ==
    {o \in [1..n -> oc \cup {"ok"}] :
        \A i, j \in 1..n : (i < j /\ o[i] = "raise") => o[j] = "ok"}

AllOk(n) == [i \in 1..n |-> "ok"]

\* what the queries of one operation did, in a word
Resumen(o) ==
    IF \E i \in DOMAIN o : o[i] = "raise" THEN "raise"
    ELSE IF \E i \in DOMAIN o : o[i] = "noconn" THEN "noconn"
    ELSE "ok"

\* the store answers or fails
Falla == {"ok", "raise"}
Falla3 == Outcomes(3, Falla)
Falla4 == Outcomes(4, Falla)
FallaMigrar == Outcomes(2 * Len(HortalizasDb), Falla)

PlaceCrop(ids, hs, pts, os) ==
    \E id \in ids, h \in hs, pt \in pts :
      \E o \in IF huerta_kuzu /\ ~verificar_colision(cultivos_activos, pt[1], pt[2], Radio)
               THEN os ELSE {AllOk(4)} :
        LET r == agregar_cultivo_activo(cultivos_activos, db, huerta_kuzu, kuzu_available,
                                        id, h, pt[1], pt[2], o)
        IN /\ Len(r.cultivos) <= MaxCultivos
           /\ cultivos_activos' = r.cultivos
           /\ db' = r.db
           /\ last' = [NoLast EXCEPT !.op = "placeCrop", !.x = pt[1], !.y = pt[2],
                                     !.id = r.id, !.raised = r.raised,
                                     !.issued = r.issued, !.store = r.store]
           /\ UNCHANGED <<hilos, anotaciones, huerta_kuzu, kuzu_available>>

FindCropAt(oc) ==
    \E pt \in Puntos, o \in IF huerta_kuzu THEN oc ELSE {"ok"} :
      \E filas \in ConsultaCercanas(db, pt[1], pt[2], Tolerancia, LimitManager) :
        LET r == obtener_planta_en_coordenada(cultivos_activos, huerta_kuzu, kuzu_available,
                                              pt[1], pt[2], o, filas)
        IN /\ last' = [NoLast EXCEPT !.op = "findCropAt", !.x = pt[1], !.y = pt[2],
                                     !.crop = r.crop, !.via = r.via]
           /\ UNCHANGED <<hilos, cultivos_activos, anotaciones, huerta_kuzu, kuzu_available, db>>

\* Huerta._init_kuzu_integration / ModelAdapter.migrate_hortalizas_to_kuzu
\* with the Domain Model's hortalizas_db
MigrateHortalizas(os) ==
    \E o \in IF kuzu_available THEN os
             ELSE {AllOk(2 * Len(HortalizasDb))} :
        LET r == migrate_hortalizas_to_kuzu(db, kuzu_available, HortalizasDb, o)
        IN /\ db' = r.db
           /\ last' = [NoLast EXCEPT !.op = "migrate", !.ret = r.ret, !.issued = r.issued,
                                     !.raised = r.exc, !.fallo = r.fallo, !.o = Resumen(o),
                                     !.traza = traza_migrate_hortalizas_to_kuzu(
                                                   db, kuzu_available, HortalizasDb, o)]
           /\ UNCHANGED <<hilos, cultivos_activos, anotaciones, huerta_kuzu, kuzu_available>>

\* annotations a caller passes: with or without an id, aimed at a crop, at a
\* vegetable type (0 included), at both, or at nothing
AnotacionInputs ==
    [id : {NoId, GenId("anotacion", 2)},
     cultivo_id : {NoId, GenId("cultivo", 1)},
     hortaliza_id : {NoHortaliza, 0, 1},
     nivel : {"tipo_planta", "individuo"}]

\* one annotation of each target shape
AnotacionesEscritura ==
    {a \in AnotacionInputs :
        /\ a.nivel = "individuo"
        /\ (a.id # NoId) = (a.hortaliza_id = 0)
        /\ a.cultivo_id # NoId => a.hortaliza_id = NoHortaliza}

AddAnnotation(as, os, max) ==
    \E a \in as :
      \E o \in IF huerta_kuzu THEN os ELSE {AllOk(3)} :
        LET r == agregar_anotacion(anotaciones, db, huerta_kuzu, kuzu_available, a, o)
        IN /\ Len(r.anotaciones) <= max
           /\ anotaciones' = r.anotaciones
           /\ db' = r.db
           /\ last' = [NoLast EXCEPT !.op = "addAnnotation", !.id = r.id, !.raised = r.raised,
                                     !.issued = r.issued, !.store = r.store]
           /\ UNCHANGED <<hilos, cultivos_activos, huerta_kuzu, kuzu_available>>

Next == PlaceCrop(CultivoIdInputs, {1}, Puntos, Falla4) \/ FindCropAt(Falla) \/ MigrateHortalizas(FallaMigrar)

Spec == Init /\ [][Next]_vars

\* the writes of the Domain Model: crops and annotations
NextEscrituras ==
    \/ PlaceCrop({NoId}, {1}, PuntosEscritura, Falla4)
    \/ AddAnnotation(AnotacionesEscritura, Falla3, MaxAnotaciones)
    \/ MigrateHortalizas(FallaMigrar)

SpecEscrituras == Init /\ [][NextEscrituras]_vars

----------------------------------------------------------------------------
(* The Synchronization Adapter and the Store Connection Manager called     *)
(* directly                                                                *)

\* no connection can be made while the operation runs
SinConexion(n) == [i \in 1..n |-> "noconn"]

\* the store answers or fails query by query, or gives no connection
Adaptador3 == Falla3 \cup {SinConexion(3)}
Adaptador4 == Falla4 \cup {SinConexion(4)}
AdaptadorMigrar == FallaMigrar \cup {SinConexion(2 * Len(HortalizasDb))}

\* ModelAdapter.create_planta_in_kuzu
CreatePlanta(ids, hs, pts, os) ==
    \E id \in ids, h \in hs, pt \in pts :
      \E o \in IF kuzu_available THEN os ELSE {AllOk(4)} :
        LET r == create_planta_in_kuzu(db, kuzu_available,
                     [id |-> id, hortaliza_id |-> h, x |-> pt[1], y |-> pt[2]], o)
        IN /\ \A e \in DOMAIN r.db.is_of_type : r.db.is_of_type[e] <= MaxCopias
           /\ \A e \in DOMAIN r.db.located_in : r.db.located_in[e] <= MaxCopias
           /\ db' = r.db
           /\ last' = [NoLast EXCEPT !.op = "createCrop", !.ret = r.ret, !.raised = r.exc,
                                     !.issued = r.issued, !.fallo = r.fallo,
                                     !.id = id, !.o = Resumen(o)]
           /\ UNCHANGED <<hilos, cultivos_activos, anotaciones, huerta_kuzu, kuzu_available>>

\* annotations handed to the adapter: about a crop, about a vegetable type
\* (1, and 0), about nothing
AnotacionesAdaptador ==
    {a \in AnotacionInputs :
        /\ a.id # NoId /\ a.nivel = "individuo"
        /\ a.cultivo_id # NoId => a.hortaliza_id = NoHortaliza}

\* ModelAdapter.create_anotacion_in_kuzu
CreateAnotacion ==
    \E a \in AnotacionesAdaptador :
      \E o \in IF kuzu_available THEN Adaptador3 ELSE {AllOk(3)} :
        LET r == create_anotacion_in_kuzu(db, kuzu_available, a, o)
        IN /\ db' = r.db
           /\ last' = [NoLast EXCEPT !.op = "createAnnotation", !.ret = r.ret,
                                     !.raised = r.exc, !.issued = r.issued, !.fallo = r.fallo,
                                     !.a = a, !.o = Resumen(o)]
           /\ UNCHANGED <<hilos, cultivos_activos, anotaciones, huerta_kuzu, kuzu_available>>

\* what a read gave back
Lectura(op, pt, radius, limit, o, r) ==
    [NoLast EXCEPT !.op = op, !.x = pt[1], !.y = pt[2], !.radius = radius, !.limit = limit,
                   !.o = o, !.rows = r.ret, !.raised = r.exc, !.issued = r.issued,
                   !.fallo = r.fallo]

\* ModelAdapter.query_planta_by_coordinates(x, y)
QueryPlantaByCoordinates ==
    \E pt \in PuntosConsulta, o \in IF kuzu_available THEN Outcome ELSE {"ok"} :
      \E filas \in ConsultaCercanas(db, pt[1], pt[2], Tolerancia, LimitManager) :
        /\ last' = Lectura("queryByCoordinate", pt, Tolerancia, 1, o,
                           query_planta_by_coordinates(kuzu_available, o, filas))
        /\ UNCHANGED <<hilos, cultivos_activos, anotaciones, huerta_kuzu, kuzu_available, db>>

\* ModelAdapter.get_plantas_by_type(hortaliza_id)
GetPlantasByType ==
    \E h \in HortalizaInputs, o \in IF kuzu_available THEN Outcome ELSE {"ok"} :
      \E filas \in EnCualquierOrden(FilasDeTipo(db, h)) :
        /\ last' = Lectura("plantsByType", <<0, 0>>, 0, 0, o,
                           get_plantas_by_type(kuzu_available, o, filas))
        /\ UNCHANGED <<hilos, cultivos_activos, anotaciones, huerta_kuzu, kuzu_available, db>>

\* ModelAdapter.get_spatial_query(x, y)
GetSpatialQuery ==
    \E pt \in PuntosConsulta, o \in IF kuzu_available THEN Outcome ELSE {"ok"} :
      \E filas \in ConsultaCercanas(db, pt[1], pt[2], SpatialRadius, LimitAdapter) :
        /\ last' = Lectura("spatialQuery", pt, SpatialRadius, LimitAdapter, o,
                           get_spatial_query(kuzu_available, o, filas))
        /\ UNCHANGED <<hilos, cultivos_activos, anotaciones, huerta_kuzu, kuzu_available, db>>

\* KuzuDBManager.query_plantas_by_coordinates(x, y)
NearestCrops ==
    \E pt \in PuntosConsulta, o \in IF kuzu_available THEN Outcome ELSE {"ok"} :
      \E filas \in ConsultaCercanas(db, pt[1], pt[2], Tolerancia, LimitManager) :
        /\ last' = [Lectura("nearestCrops", pt, Tolerancia, LimitManager, o,
                            query_plantas_by_coordinates(kuzu_available, o, filas))
                      EXCEPT !.traza = traza_query_plantas_by_coordinates(kuzu_available, o)]
        /\ UNCHANGED <<hilos, cultivos_activos, anotaciones, huerta_kuzu, kuzu_available, db>>

\* where the k-th crop handed to the adapter lies: (0,0), (20,20), (0,0), ...
PuntoDePlanta(k) == IF k % 2 = 1 THEN <<0, 0>> ELSE <<20, 20>>

NextAdaptador ==
    \/ \E k \in 1..MaxPlantas :
          CreatePlanta({GenId("cultivo", k)}, HortalizaInputs, {PuntoDePlanta(k)}, Adaptador4)
    \/ CreateAnotacion
    \/ MigrateHortalizas(AdaptadorMigrar)
    \/ QueryPlantaByCoordinates
    \/ GetPlantasByType
    \/ GetSpatialQuery
    \/ NearestCrops

SpecAdaptador == Init /\ [][NextAdaptador]_vars

\* every query of createCrop is answered, fails, or finds no connection,
\* each on its own (connect() is called anew for every query)
Conexion4 == Outcomes(4, Outcome)

ConexionMigrar == Outcomes(2 * Len(HortalizasDb), Outcome)

\* one crop written to the store again and again, the vegetable types
\* migrated again and again
NextCrear ==
    \/ CreatePlanta({GenId("cultivo", 1)}, {1}, PuntosPlanta, Conexion4)
    \/ MigrateHortalizas(ConexionMigrar)

SpecCrear == Init /\ [][NextCrear]_vars

\* KuzuDBManager.execute_query, with the query for the crops near a point
ExecuteQuery ==
    \E pt \in PuntosConsulta, connection \in BOOLEAN :
      \E o \in IF ~kuzu_available THEN {"ok"}
               ELSE IF connection THEN Falla ELSE Outcome :
        \E filas \in ConsultaCercanas(db, pt[1], pt[2], Tolerancia, LimitManager) :
          LET r == execute_query(kuzu_available, o, filas)
              t == traza_execute_query(kuzu_available, connection, o)
          IN /\ last' = [NoLast EXCEPT !.op = "executeQuery", !.x = pt[1], !.y = pt[2],
                                       !.o = o, !.nulo = r.nulo, !.rows = r.filas,
                                       !.raised = r.exc, !.issued = r.issued,
                                       !.fallo = r.exc, !.conexion = connection,
                                       !.traza = t, !.abiertas = SinCerrar(t)]
           /\ UNCHANGED <<hilos, cultivos_activos, anotaciones, huerta_kuzu, kuzu_available, db>>

\* per structure the CREATE of the node fails or not, and then the CREATE
\* of the relationship
FallaCargar ==
    {o \in [1..2 * Len(EstructurasToml) -> Falla] :
        \A i \in 1..Len(EstructurasToml) : o[2 * i - 1] = "raise" => o[2 * i] = "ok"}

\* KuzuDBManager._load_estructuras_from_toml()
LoadEstructuras ==
    \E c \in {"ok", "noconn"} :
      \E o \in IF kuzu_available /\ c = "ok" THEN FallaCargar
               ELSE {AllOk(2 * Len(EstructurasToml))} :
        /\ db' = load_estructuras_from_toml(db, kuzu_available, c, EstructurasToml, o)
        /\ last' = [NoLast EXCEPT !.op = "loadEstructuras", !.o = c]
        /\ UNCHANGED <<hilos, cultivos_activos, anotaciones, huerta_kuzu, kuzu_available>>

\* KuzuDBManager.check_coordinate_in_structure(x, y)
StructuresIntersecting ==
    \E pt \in PuntosEstructura, o \in IF kuzu_available THEN Outcome ELSE {"ok"} :
        /\ last' = Lectura("structuresIntersecting", pt, 0, 0, o,
                           check_coordinate_in_structure(kuzu_available, o,
                               OrdenadasPorNombre(db.estructuras), pt[1], pt[2]))
        /\ UNCHANGED <<hilos, cultivos_activos, anotaciones, huerta_kuzu, kuzu_available, db>>

\* GET /api/check_coordinates: db_status['connected'] is set by the GUI's
\* connect handlers, which set it only after the manager gave a connection
IsUsable ==
    \E pt \in PuntosEstructura, o \in IF kuzu_available THEN Falla ELSE {"ok"},
       connected \in IF kuzu_available THEN BOOLEAN ELSE {FALSE},
       c \in IF kuzu_available THEN {"ok", "noconn"} ELSE {"noconn"} :
        LET r == api_check_coordinates(kuzu_available, connected, c, o,
                                       OrdenadasPorNombre(db.estructuras), pt[1], pt[2])
        IN /\ last' = [NoLast EXCEPT !.op = "isUsable", !.x = pt[1], !.y = pt[2],
                                     !.o = IF connected /\ c = "ok" THEN o ELSE c,
                                     !.success = r.success, !.usable = r.usable,
                                     !.rows = r.structures]
           /\ UNCHANGED <<hilos, cultivos_activos, anotaciones, huerta_kuzu, kuzu_available, db>>

\* crops placed through the Domain Model, structures loaded from the
\* configuration, and the manager's queries
NextConsultas ==
    \/ PlaceCrop({NoId}, {1}, PuntosPlanta, Falla4)
    \/ MigrateHortalizas({AllOk(2 * Len(HortalizasDb))})
    \/ LoadEstructuras
    \/ ExecuteQuery
    \/ NearestCrops
    \/ StructuresIntersecting
    \/ IsUsable

SpecConsultas == Init /\ [][NextConsultas]_vars

\* at most one statement of a load fails for a reason of the store's
FallaCarga ==
    {[i \in 1..NCarga |-> IF i = k THEN "raise" ELSE "ok"] : k \in 0..NCarga}

\* KuzuDBManager.load_initial_data()
LoadInitialData ==
    \E c \in {"ok", "noconn"} :
      \E o \in IF kuzu_available /\ c = "ok" THEN FallaCarga ELSE {AllOk(NCarga)} :
        LET d == load_initial_data(db, kuzu_available, c, o)
            corre == kuzu_available /\ c = "ok"
            t == traza_load_initial_data(kuzu_available, c)
        IN /\ \A e \in DOMAIN d.is_of_type : d.is_of_type[e] <= MaxCopias
           /\ db' = d
           /\ \E recolecta \in BOOLEAN :
                last' = [NoLast EXCEPT !.op = "loadInitialData",
                                      !.o = IF corre THEN Resumen(o) ELSE "noconn",
                                      !.rechazadas = IF corre THEN Rechazadas(db, o) ELSE 0,
                                      !.traza = t,
                                      !.abiertas = abiertas_al_volver(t, recolecta)]
           /\ UNCHANGED <<hilos, cultivos_activos, anotaciones, huerta_kuzu, kuzu_available>>

\* the store is seeded, once or again, and crops are written to it
NextCarga ==
    \/ LoadInitialData
    \/ CreatePlanta({GenId("cultivo", 1)}, {1}, {<<0, 0>>}, {AllOk(4)})

SpecCarga == Init /\ [][NextCarga]_vars

\* crops and annotations a caller hands to the Domain Model, naming
\* configured vegetable types and unknown ones
NextReferencias ==
    \/ PlaceCrop({NoId}, HortalizaInputs, PuntosEscritura, {AllOk(4)})
    \/ AddAnnotation(AnotacionesEscritura, {AllOk(3)}, MaxAnotaciones)
    \/ MigrateHortalizas({AllOk(2 * Len(HortalizasDb))})

SpecReferencias == Init /\ [][NextReferencias]_vars

\* a store found on disk: without tables, with some of them (the tables
\* _is_database_initialized probes for among them, or not), with all
TablasIniciales ==
    {{}, {"Hortaliza", "Planta"}, {"Anotation", "Estructura", "Hortaliza"}, TablasEsperadas}

\* the manager is constructed over a store that has the schema, part of it,
\* or none of it
InitEsquema ==
    /\ cultivos_activos = <<>>
    /\ anotaciones = <<>>
    /\ hilos = SinHilos
    /\ kuzu_available \in BOOLEAN
    /\ huerta_kuzu = kuzu_available
    /\ db \in {[EmptyDb EXCEPT !.tablas = t] : t \in TablasIniciales}
    /\ last = NoLast

\* at most one of n queries fails for a reason of the store's
UnaFalla(n) == {[i \in 1..n |-> IF i = k THEN "raise" ELSE "ok"] : k \in 0..n}

\* the client objects are constructed or not; the schema file is there and
\* readable, there and unreadable, or not there
Construye == {"ok", "raise"}
Archivo == {"ok", "ilegible", "ausente"}

\* KuzuDBManager.connect()
Connect ==
    \E construye \in IF kuzu_available THEN Construye ELSE {"ok"},
       archivo \in IF kuzu_available THEN Archivo ELSE {"ok"} :
      \E o \in IF kuzu_available /\ construye = "ok" THEN UnaFalla(NConectar)
               ELSE {AllOk(NConectar)} :
        LET r == connect(db.tablas, kuzu_available, construye, archivo, o)
        IN /\ db' = [db EXCEPT !.tablas = r.tablas]
           /\ last' = [NoLast EXCEPT !.op = "connect", !.nulo = ~r.conn, !.raised = r.exc,
                                     !.o = construye, !.esquema = r.esquema,
                                     !.archivo = archivo,
                                     !.fallo = /\ r.conn
                                               /\ ~is_database_initialized(db.tablas, TRUE,
                                                      SubSeq(o, 1, Len(ConsultasInicializada))),
                                     !.traza = traza_connect(kuzu_available, construye)]
           /\ UNCHANGED <<hilos, cultivos_activos, anotaciones, huerta_kuzu, kuzu_available>>

\* KuzuDBManager.initialize_schema()
InitializeSchema ==
    \E construye \in IF kuzu_available THEN Construye ELSE {"ok"},
       archivo \in IF kuzu_available THEN Archivo ELSE {"ok"} :
      \E o1 \in IF kuzu_available /\ construye = "ok" THEN UnaFalla(NConectar)
                ELSE {AllOk(NConectar)},
         o2 \in IF kuzu_available /\ construye = "ok" /\ archivo = "ok" THEN UnaFalla(NEsquema)
                ELSE {AllOk(NEsquema)} :
        LET r == initialize_schema(db.tablas, kuzu_available, construye, archivo, o1, o2)
            t == traza_initialize_schema(kuzu_available, construye, archivo)
        IN /\ db' = [db EXCEPT !.tablas = r.tablas]
           /\ \E recolecta \in BOOLEAN :
                last' = [NoLast EXCEPT !.op = "initializeSchema", !.o = construye,
                                      !.devuelve = r.devuelve, !.intentadas = r.intentadas,
                                      !.archivo = archivo, !.fallo = Resumen(o2) = "raise",
                                      !.traza = t,
                                      !.abiertas = abiertas_al_volver(t, recolecta)]
           /\ UNCHANGED <<hilos, cultivos_activos, anotaciones, huerta_kuzu, kuzu_available>>

\* the store at db_path is deleted from outside between two calls
DeleteStore ==
    /\ db.borrados < MaxBorrados
    /\ db' = [EmptyDb EXCEPT !.tablas = {}, !.borrados = db.borrados + 1]
    /\ last' = [NoLast EXCEPT !.op = "deleteStore"]
    /\ UNCHANGED <<hilos, cultivos_activos, anotaciones, huerta_kuzu, kuzu_available>>

NextEsquema ==
    \/ Connect
    \/ InitializeSchema
    \/ DeleteStore

SpecEsquema == InitEsquema /\ [][NextEsquema]_vars

\* KuzuDBManager.close(connection) on a connection connect() gave, still
\* open or closed by an earlier close, and KuzuDBManager.close(); last.estado
\* is the state the connection was in before the call
Close ==
    \E connection \in BOOLEAN :
      \E estado \in IF connection THEN {"open", "closed"} ELSE {"none"},
         o \in IF connection THEN Falla ELSE {"ok"} :
        LET r == close(connection, estado, SinManejadores, o)
        IN /\ last' = [NoLast EXCEPT !.op = "close", !.conexion = connection,
                                     !.estado = estado, !.o = o, !.raised = r.exc,
                                     !.manejadores = r.m,
                                     !.abiertas = IF r.estado = "open" THEN {0} ELSE {}]
           /\ UNCHANGED <<hilos, cultivos_activos, anotaciones, huerta_kuzu, kuzu_available, db>>

\* the manager's operations, for what they do to connections
NextConexiones ==
    \/ ExecuteQuery
    \/ InitializeSchema
    \/ LoadInitialData
    \/ Close

SpecConexiones == Init /\ [][NextConexiones]_vars

\* executeQuery and its callers that read the cursor it returns: the
\* manager's query for the crops near a point, the adapter's migration
NextCursores ==
    \/ ExecuteQuery
    \/ NearestCrops
    \/ MigrateHortalizas(ConexionMigrar)

SpecCursores == Init /\ [][NextCursores]_vars

\* Huerta.agregar_cultivo_activo run by request threads, statement by
\* statement; nothing in the Domain Model keeps two threads apart.  A
\* thread enters the call with a crop without an id
Llamar(t) ==
    /\ hilos[t].pc = "idle"
    /\ Len(cultivos_activos) + Cardinality({u \in Hilos : hilos[u].pc # "idle"}) < MaxCultivos
    /\ \E pt \in PuntosEscritura :
          hilos' = [hilos EXCEPT ![t] = [pc |-> "colision",
                                         c |-> [id |-> NoId, hortaliza_id |-> 1,
                                                x |-> pt[1], y |-> pt[2]]]]
    /\ UNCHANGED <<cultivos_activos, anotaciones, huerta_kuzu, kuzu_available, db, last>>

\* "if self._verificar_colision(cultivo.coordenadas): raise ValueError(...)"
Comprobar(t) ==
    /\ hilos[t].pc = "colision"
    /\ IF verificar_colision(cultivos_activos, hilos[t].c.x, hilos[t].c.y, Radio)
       THEN /\ hilos' = [hilos EXCEPT ![t] = HiloLibre]
            /\ last' = [NoLast EXCEPT !.op = "placeCrop", !.x = hilos[t].c.x,
                                      !.y = hilos[t].c.y, !.raised = TRUE]
       ELSE /\ hilos' = [hilos EXCEPT ![t].pc = "id"]
            /\ UNCHANGED last
    /\ UNCHANGED <<cultivos_activos, anotaciones, huerta_kuzu, kuzu_available, db>>

\* "if not cultivo.id: cultivo.id = f'cultivo_{len(self.cultivos_activos) + 1}'"
AsignarId(t) ==
    /\ hilos[t].pc = "id"
    /\ hilos' = [hilos EXCEPT ![t].pc = "append",
                              ![t].c.id = IF @ = NoId
                                          THEN GenId("cultivo", Len(cultivos_activos) + 1)
                                          ELSE @]
    /\ UNCHANGED <<cultivos_activos, anotaciones, huerta_kuzu, kuzu_available, db, last>>

\* "self.cultivos_activos.append(cultivo)"
Agregar(t) ==
    /\ hilos[t].pc = "append"
    /\ cultivos_activos' = Append(cultivos_activos, hilos[t].c)
    /\ hilos' = [hilos EXCEPT ![t].pc = "persistir"]
    /\ UNCHANGED <<anotaciones, huerta_kuzu, kuzu_available, db, last>>

\* "if self._kuzu_available: try: model_adapter.create_planta_in_kuzu(cultivo)
\* except ...", and "return cultivo.id"
Persistir(t) ==
    /\ hilos[t].pc = "persistir"
    /\ \E o \in IF huerta_kuzu THEN Falla4 ELSE {AllOk(4)} :
         LET c == hilos[t].c
             r == IF huerta_kuzu THEN create_planta_in_kuzu(db, kuzu_available, c, o)
                  ELSE Hecho(db, FALSE, 0)
         IN /\ db' = r.db
            /\ last' = [NoLast EXCEPT !.op = "placeCrop", !.x = c.x, !.y = c.y, !.id = c.id,
                                      !.issued = r.issued, !.store = Persistido(huerta_kuzu, r)]
    /\ hilos' = [hilos EXCEPT ![t] = HiloLibre]
    /\ UNCHANGED <<cultivos_activos, anotaciones, huerta_kuzu, kuzu_available>>

NextHilos ==
    \E t \in Hilos :
        \/ Llamar(t)
        \/ Comprobar(t)
        \/ AsignarId(t)
        \/ Agregar(t)
        \/ Persistir(t)

SpecHilos == Init /\ [][NextHilos]_vars

\* a caller holds a point of the grid and a polygon
InitPoligono ==
    /\ cultivos_activos = <<>>
    /\ anotaciones = <<>>
    /\ hilos = SinHilos
    /\ kuzu_available \in BOOLEAN
    /\ huerta_kuzu = kuzu_available
    /\ db = EmptyDb
    /\ \E x \in Rejilla, y \in Rejilla, polygon \in Poligonos :
          last = [NoLast EXCEPT !.op = "entrada", !.x = x, !.y = y, !.poligono = polygon]

\* KuzuDBManager._point_in_polygon(x, y, polygon)
PointInPolygon ==
    /\ last.op = "entrada"
    /\ last' = [last EXCEPT !.op = "pointInPolygon",
                            !.ret = point_in_polygon(last.x, last.y, last.poligono),
                            !.divisores = divisores(last.x, last.y, last.poligono)]
    /\ UNCHANGED <<hilos, cultivos_activos, anotaciones, huerta_kuzu, kuzu_available, db>>

NextPoligono == PointInPolygon

SpecPoligono == InitPoligono /\ [][NextPoligono]_vars

----------------------------------------------------------------------------
(* Annotations: added through the Domain Model and read back by target,    *)
(* and the manager's own annotation table                                  *)

\* annotations a caller passes without an id: every combination of targets
\* and levels, and one annotation about vegetable type 0 (which is not in
\* hortalizas_db)
AnotacionesConsulta ==
    {a \in AnotacionInputs :
        /\ a.id = NoId
        /\ a.hortaliza_id = 0 => (a.cultivo_id = NoId /\ a.nivel = "tipo_planta")}

\* Huerta.obtener_anotaciones_por_cultivo(cultivo_id)
AnnotationsForCrop ==
    \E id \in {GenId("cultivo", 1), GenId("cultivo", 2)} :
        /\ last' = [NoLast EXCEPT !.op = "annotationsFor", !.kind = "crop", !.id = id,
                        !.rows = obtener_anotaciones_por_cultivo(anotaciones, id)]
        /\ UNCHANGED <<hilos, cultivos_activos, anotaciones, huerta_kuzu, kuzu_available, db>>

\* Huerta.obtener_anotaciones_por_tipo_planta(hortaliza_id)
AnnotationsForType ==
    \E h \in {0, 1, 2} :
        /\ last' = [NoLast EXCEPT !.op = "annotationsFor", !.kind = "type", !.h = h,
                        !.rows = obtener_anotaciones_por_tipo_planta(anotaciones, h)]
        /\ UNCHANGED <<hilos, cultivos_activos, anotaciones, huerta_kuzu, kuzu_available, db>>

Falla2 == Outcomes(2, Falla)

\* what add_annotation is aimed at
TargetInputs ==
    {<<"garden", NoId>>, <<"plant", GenId("cultivo", 1)>>, <<"plant", NoId>>,
     <<"vegetable", NumId(1)>>, <<"vegetable", TextoId>>}

\* KuzuDBManager.add_annotation(tipo, comentario, target_type, target_id)
AddAnnotationManager ==
    \E t \in 1..MaxSellos, tg \in TargetInputs :
      \E o \in IF kuzu_available THEN Falla2 ELSE {AllOk(2)} :
        LET r == add_annotation(db, kuzu_available, t, tg[1], tg[2], o)
        IN /\ db' = r.db
           /\ last' = [NoLast EXCEPT !.op = "addAnnotationManager", !.ret = r.ret,
                                     !.raised = r.exc, !.issued = r.issued]
           /\ UNCHANGED <<hilos, cultivos_activos, anotaciones, huerta_kuzu, kuzu_available>>

\* KuzuDBManager.query_all_annotations(): the listing the store offers for
\* the annotations of the garden
QueryAllAnnotations ==
    \E o \in IF kuzu_available THEN Outcome ELSE {"ok"} :
        /\ last' = Lectura("gardenAnnotations", <<0, 0>>, 0, 0, o,
                           query_all_annotations(kuzu_available, o,
                                                 OrdenadasPorFecha(db.anotation)))
        /\ UNCHANGED <<hilos, cultivos_activos, anotaciones, huerta_kuzu, kuzu_available, db>>

NextAnotaciones ==
    \/ AddAnnotation(AnotacionesConsulta, {AllOk(3)}, MaxNotas)
    \/ AnnotationsForCrop
    \/ AnnotationsForType
    \/ AddAnnotationManager
    \/ QueryAllAnnotations

SpecAnotaciones == Init /\ [][NextAnotaciones]_vars

----------------------------------------------------------------------------
(* Claims about placing and finding crops (specification Spec) *)

Cerca(c, x, y, r) == Dist2(c.x, c.y, x, y) < r * r

\* C1: placeCrop at a point closer than 25 to some stored crop raises the
\* collision error, leaves the crop list and the store as they were and
\* issues no store query; placeCrop at a point at least 25 from every stored
\* crop succeeds and appends exactly one crop, at that point.
C1_ColisionRechaza ==
    [][last'.op = "placeCrop" =>
        IF \E i \in 1..Len(cultivos_activos) : Cerca(cultivos_activos[i], last'.x, last'.y, 25)
        THEN /\ last'.raised
             /\ cultivos_activos' = cultivos_activos
             /\ db' = db
             /\ last'.issued = 0
        ELSE /\ ~last'.raised
             /\ Len(cultivos_activos') = Len(cultivos_activos) + 1
             /\ SubSeq(cultivos_activos', 1, Len(cultivos_activos)) = cultivos_activos
             /\ cultivos_activos'[Len(cultivos_activos')].x = last'.x
             /\ cultivos_activos'[Len(cultivos_activos')].y = last'.y]_vars

\* a rejected placeCrop, with the store available and a crop already stored
C1_Witness ==
    /\ last.op = "placeCrop" /\ last.raised /\ huerta_kuzu
    /\ \E i \in 1..Len(cultivos_activos) : Cerca(cultivos_activos[i], last.x, last.y, 25)

\* C2: after any sequence of placeCrop calls every two distinct crops of the
\* in-memory list are at distance >= 25 from each other.
C2_Separados ==
    \A i, j \in 1..Len(cultivos_activos) :
        i # j => ~Cerca(cultivos_activos[i], cultivos_activos[j].x, cultivos_activos[j].y, 25)

\* two crops stored and a placeCrop just rejected
C2_Witness ==
    Len(cultivos_activos) >= 2 /\ last.op = "placeCrop" /\ last.raised

\* C3: findCropAt returns empty when the Domain Model holds no crops, and at
\* the exact point of a stored crop it returns that crop.
C3_EncuentraElPlantado ==
    last.op = "findCropAt" =>
        /\ cultivos_activos = <<>> => last.crop = NoCultivo
        /\ \A i \in 1..Len(cultivos_activos) :
              (cultivos_activos[i].x = last.x /\ cultivos_activos[i].y = last.y)
                  => last.crop = cultivos_activos[i]

\* C4: findCropAt never returns a crop at distance 20 or more from the query
\* point, and returns empty when no crop is within that tolerance.
C4_DentroDeTolerancia ==
    last.op = "findCropAt" =>
        /\ last.crop # NoCultivo => Cerca(last.crop, last.x, last.y, 20)
        /\ (\A i \in 1..Len(cultivos_activos) : ~Cerca(cultivos_activos[i], last.x, last.y, 20))
               => last.crop = NoCultivo

\* C5: with the store available findCropAt returns what the in-memory scan
\* returns: the first crop in insertion order within the tolerance, or empty.
C5_IgualQueMemoria ==
    (last.op = "findCropAt" /\ huerta_kuzu) =>
        LET dentro == {i \in 1..Len(cultivos_activos) :
                         Cerca(cultivos_activos[i], last.x, last.y, 20)}
        IN IF dentro = {} THEN last.crop = NoCultivo
           ELSE last.crop = cultivos_activos[CHOOSE i \in dentro : \A j \in dentro : i <= j]

----------------------------------------------------------------------------
(* Claims about the writes of the Domain Model (specification SpecEscrituras) *)

\* C6: a placeCrop that passes the collision check, and every addAnnotation,
\* appends the entity to the in-memory list and returns its id without
\* raising, whether the store write succeeds, fails or is skipped; no step
\* removes or changes an entry already in memory.
C6_EscrituraEnMemoria ==
    [][/\ (/\ last'.op = "placeCrop"
           /\ \A i \in 1..Len(cultivos_activos) :
                 ~Cerca(cultivos_activos[i], last'.x, last'.y, 25))
          => /\ ~last'.raised
             /\ Len(cultivos_activos') = Len(cultivos_activos) + 1
             /\ cultivos_activos'[Len(cultivos_activos')].id = last'.id
             /\ last'.id # NoId
       /\ last'.op = "addAnnotation"
          => /\ ~last'.raised
             /\ Len(anotaciones') = Len(anotaciones) + 1
             /\ anotaciones'[Len(anotaciones')].id = last'.id
             /\ last'.id # NoId
       /\ Len(cultivos_activos') >= Len(cultivos_activos)
       /\ SubSeq(cultivos_activos', 1, Len(cultivos_activos)) = cultivos_activos
       /\ Len(anotaciones') >= Len(anotaciones)
       /\ SubSeq(anotaciones', 1, Len(anotaciones)) = anotaciones]_vars

\* an annotation just added whose store write failed, next to a crop held
\* in memory whose store write failed too
C6_Witness ==
    /\ last.op = "addAnnotation" /\ last.store = "failed" /\ ~last.raised
    /\ anotaciones # <<>> /\ anotaciones[Len(anotaciones)].id \notin db.anotaciones
    /\ \E i \in 1..Len(cultivos_activos) : cultivos_activos[i].id \notin PlantaIds(db)

----------------------------------------------------------------------------
(* Claims about the Synchronization Adapter (specification SpecAdaptador) *)

AdaptadorOps ==
    {"createCrop", "createAnnotation", "migrate", "queryByCoordinate", "plantsByType",
     "spatialQuery"}

\* C7: every adapter operation raises no exception; it returns false or an
\* empty result when the store is unavailable and when a store query it
\* issues fails; with the store unavailable it issues no store query.
C7_AdaptadorNoLanza ==
    last.op \in AdaptadorOps =>
        /\ ~last.raised
        /\ (~kuzu_available \/ last.fallo) => (last.ret = FALSE /\ last.rows = <<>>)
        /\ ~kuzu_available => last.issued = 0

\* createCrop gave up at its third query: the Planta node is in the store,
\* the call returned false
C7_Witness ==
    /\ kuzu_available /\ last.op = "createCrop" /\ last.fallo /\ last.issued = 3
    /\ ~last.ret /\ db.plantas # {}

EnCaja(p, x, y, radius) == Abs(p.x - x) <= radius /\ Abs(p.y - y) <= radius

\* C10: a nearest-crops query that the store answers returns rows in
\* ascending distance to the query point, no more than its limit, and leaves
\* out a stored crop only if the crop is outside the box of half-width
\* radius or the limit is reached by crops at least as close.
C10_CercanasCompletas ==
    (last.op \in {"nearestCrops", "spatialQuery"} /\ kuzu_available /\ last.o = "ok") =>
        /\ \A i, j \in 1..Len(last.rows) :
              i < j => Dist2(last.rows[i].x, last.rows[i].y, last.x, last.y)
                         <= Dist2(last.rows[j].x, last.rows[j].y, last.x, last.y)
        /\ Len(last.rows) <= last.limit
        /\ \A p \in db.plantas :
              EnCaja(p, last.x, last.y, last.radius) =>
                  \/ \E i \in 1..Len(last.rows) : last.rows[i].id = p.id
                  \/ /\ Len(last.rows) = last.limit
                     /\ \A i \in 1..Len(last.rows) :
                           Dist2(last.rows[i].x, last.rows[i].y, last.x, last.y)
                               <= Dist2(p.x, p.y, last.x, last.y)

----------------------------------------------------------------------------
(* Claims about the manager's queries (specification SpecConsultas) *)

Filas(rows) == {rows[i] : i \in 1..Len(rows)}

Contienen(d, x, y) == {e \in d.estructuras : point_in_polygon(x, y, e.poligono)}

\* C9 (as the code has it): when the store answers the structure query,
\* structuresIntersecting returns exactly the stored structures whose
\* polygon contains the point, each once; when the store is unavailable,
\* gives no connection or the query fails, it returns an empty list; the
\* coordinate check reports usable if and only if the list it got is empty.
C9_EstructurasQueContienen ==
    /\ last.op = "structuresIntersecting" =>
          IF kuzu_available /\ last.o = "ok"
          THEN /\ Filas(last.rows) = Contienen(db, last.x, last.y)
               /\ Len(last.rows) = Cardinality(Contienen(db, last.x, last.y))
          ELSE last.rows = <<>>
    /\ (last.op = "isUsable" /\ last.success) =>
          /\ last.usable <=> last.rows = <<>>
          /\ IF last.o = "ok" THEN Filas(last.rows) = Contienen(db, last.x, last.y)
                              ELSE last.rows = <<>>

\* a point inside two overlapping stored structures: both are returned, the
\* stored polygon of two vertices is not
C9_Witness ==
    /\ last.op = "structuresIntersecting" /\ Len(last.rows) = 2
    /\ Cardinality(db.estructuras) = 3

\* C9 (as stated): structuresIntersecting returns exactly the stored
\* structures whose polygon contains the point, and a coordinate is usable
\* if and only if that result is empty.
C9_ExactamenteLasQueContienen ==
    /\ last.op = "structuresIntersecting" =>
          Filas(last.rows) = Contienen(db, last.x, last.y)
    /\ (last.op = "isUsable" /\ last.success) =>
          (last.usable <=> Contienen(db, last.x, last.y) = {})

----------------------------------------------------------------------------
(* Claims about annotations (specification SpecAnotaciones) *)

SinDestino(a) == a.cultivo_id = NoId /\ a.hortaliza_id = NoHortaliza

\* C11: an annotation added by addAnnotation with no target set is returned
\* by the garden-target query (here: whenever the store is available and
\* answers the listing) and is never returned by annotationsFor with a crop
\* target or a vegetable-type target.
C11_SoloPorHuerta ==
    /\ (last.op = "gardenAnnotations" /\ huerta_kuzu /\ last.o = "ok") =>
          \A i \in 1..Len(anotaciones) :
              SinDestino(anotaciones[i]) =>
                  \E k \in 1..Len(last.rows) : last.rows[k] = anotaciones[i].id
    /\ last.op = "annotationsFor" =>
          \A k \in 1..Len(last.rows) : ~SinDestino(last.rows[k])

\* C12: every annotation held by the Domain Model has at most one target
\* reference set (crop id, vegetable-type id).
C12_UnSoloDestino ==
    \A i \in 1..Len(anotaciones) :
        ~(anotaciones[i].cultivo_id # NoId /\ anotaciones[i].hortaliza_id # NoHortaliza)

\* the stored annotations a target query selects, as positions in the list
Posiciones(coincide(_)) == {i \in 1..Len(anotaciones) : coincide(anotaciones[i])}

\* rows are the annotations at the positions P, in ascending position
EnOrdenDeInsercion(rows, P) ==
    /\ Len(rows) = Cardinality(P)
    /\ \A k \in 1..Len(rows) :
          rows[k] = anotaciones[CHOOSE i \in P : Cardinality({j \in P : j <= i}) = k]

\* C13 (as the code has it): annotationsFor with a crop target returns
\* exactly the stored annotations whose crop id is the target id; with a
\* vegetable-type target, exactly those whose vegetable-type id is the
\* target id and whose specificity level is "tipo_planta"; both in the
\* order in which they were added.
C13_FiltroPorDestino ==
    last.op = "annotationsFor" =>
        IF last.kind = "crop"
        THEN EnOrdenDeInsercion(last.rows, Posiciones(LAMBDA a : a.cultivo_id = last.id))
        ELSE EnOrdenDeInsercion(last.rows,
                 Posiciones(LAMBDA a : a.hortaliza_id = last.h /\ a.nivel = "tipo_planta"))

\* two annotations of the queried vegetable type are stored, the first at
\* the level of an individual: the query returns the second alone
C13_Witness ==
    /\ last.op = "annotationsFor" /\ last.kind = "type" /\ Len(anotaciones) = 2
    /\ anotaciones[1].hortaliza_id = last.h /\ anotaciones[1].nivel = "individuo"
    /\ last.rows = <<anotaciones[2]>>

\* C13 (as stated): annotationsFor returns exactly the stored annotations
\* whose target of that kind equals the target id, whatever their other
\* fields, in the order in which they were added.
C13_SoloElDestinoCuenta ==
    last.op = "annotationsFor" =>
        IF last.kind = "crop"
        THEN EnOrdenDeInsercion(last.rows, Posiciones(LAMBDA a : a.cultivo_id = last.id))
        ELSE EnOrdenDeInsercion(last.rows, Posiciones(LAMBDA a : a.hortaliza_id = last.h))

----------------------------------------------------------------------------
(* Claims about what the adapter writes (specification SpecAdaptador) *)

\* the relationships that start at the annotation node id, of every label
RelacionesDe(d, id) ==
    [cultivo |-> BagCardinality([e \in {x \in DOMAIN d.annotates_planta : x[1] = id}
                                    |-> d.annotates_planta[e]]),
     tipo |-> BagCardinality([e \in {x \in DOMAIN d.annotates : x[1] = id}
                                 |-> d.annotates[e]]),
     huerta |-> BagCardinality([e \in {x \in DOMAIN d.has_anotation : x[3] = id}
                                   |-> d.has_anotation[e]])]

\* C14: with the store available and every query answered, createAnnotation
\* for an id not yet in the store creates the node and exactly one
\* relationship: to the crop when the crop id is set (the crop being in the
\* store), to the vegetable type when the type id is set (the type being in
\* the store), to the garden when no target is set.
C14_UnaRelacion ==
    [][(/\ last'.op = "createAnnotation" /\ kuzu_available /\ last'.o = "ok"
        /\ last'.a.id \notin db.anotaciones)
       => LET a == last'.a
              r == RelacionesDe(db', a.id)
          IN /\ db'.anotaciones = db.anotaciones \cup {a.id}
             /\ IF a.cultivo_id # NoId
                THEN a.cultivo_id \in PlantaIds(db)
                         => r = [cultivo |-> 1, tipo |-> 0, huerta |-> 0]
                ELSE IF a.hortaliza_id # NoHortaliza
                THEN a.hortaliza_id \in db.hortalizas
                         => r = [cultivo |-> 0, tipo |-> 1, huerta |-> 0]
                ELSE r = [cultivo |-> 0, tipo |-> 0, huerta |-> 1]]_vars

----------------------------------------------------------------------------
(* Claims about repeated writes (specification SpecCrear) *)

\* C15: the store holds at most one crop node per crop id, and a createCrop
\* for an id already in the store, none of whose queries fails, creates no
\* node and no relationship and returns true.
C15_CrearEsIdempotente ==
    [][/\ \A p, q \in db'.plantas : p.id = q.id => p = q
       /\ (last'.op = "createCrop" /\ ~last'.fallo /\ last'.id \in PlantaIds(db))
            => (db' = db /\ last'.ret)]_vars

TiposMigrados(d) == \A i \in 1..Len(HortalizasDb) : HortalizasDb[i] \in d.hortalizas

\* C16 (as the code has it): a migrateReferenceData call made when every
\* type of the set is in the store changes nothing in the store, and, its
\* queries answered, issues the existence checks alone and returns true; a
\* call whose queries are all answered leaves every type of the set in the
\* store.
C16_MigrarNoDuplica ==
    [][(last'.op = "migrate" /\ kuzu_available) =>
          /\ TiposMigrados(db) =>
                /\ db' = db
                /\ last'.o = "ok" => (last'.ret /\ last'.issued = Len(HortalizasDb))
          /\ last'.o = "ok" => (last'.ret /\ TiposMigrados(db'))]_vars

\* a second migration, every query answered: only the existence checks
\* reached the store
C16_Witness ==
    /\ last.op = "migrate" /\ kuzu_available /\ last.o = "ok" /\ last.ret
    /\ last.issued = Len(HortalizasDb) /\ TiposMigrados(db)

\* C16 (as stated): a migrateReferenceData call that follows another leaves
\* the store with the node count it had after the first.
C16_MismaCuenta ==
    [][(last.op = "migrate" /\ last'.op = "migrate")
          => Cardinality(db'.hortalizas) = Cardinality(db.hortalizas)]_vars

\* C17: loadInitialData is safe to re-run: a run that follows a complete run
\* leaves the nodes and the multisets of relationships of the store as they
\* were, and issues no CREATE that the store has to refuse (the loader checks
\* for existence itself).
C17_CargaRepetible ==
    [][(/\ last.op = "loadInitialData" /\ last.o = "ok"
        /\ last'.op = "loadInitialData" /\ last'.o = "ok")
       => (db' = db /\ last'.rechazadas = 0)]_vars

\* the keys of hortalizas_db, the VegetableType reference set
TiposConfigurados == {HortalizasDb[i] : i \in DOMAIN HortalizasDb}

\* C18: every crop and every annotation that placeCrop / addAnnotation stored
\* names a vegetable type of the reference set (an annotation may name
\* none); a request naming an unknown type is not stored.
C18_TiposConocidos ==
    /\ \A i \in DOMAIN cultivos_activos :
          cultivos_activos[i].hortaliza_id \in TiposConfigurados
    /\ \A i \in DOMAIN anotaciones :
          anotaciones[i].hortaliza_id # NoHortaliza
             => anotaciones[i].hortaliza_id \in TiposConfigurados

\* C19: connect never raises to its caller, and gives no connection only
\* when the store is unavailable or the client objects cannot be
\* constructed; when the schema probe fails and the automatic schema
\* creation fails or is incomplete it still gives a connection.
C19_ConnectNoLanza ==
    last.op = "connect"
       => /\ ~last.raised
          /\ last.nulo <=> (~kuzu_available \/ last.o = "raise")

\* connect ran the automatic schema creation, it failed, and a connection
\* is returned over a store that lacks tables
C19_Witness ==
    /\ last.op = "connect"
    /\ last.esquema = "False"
    /\ ~(TablasEsperadas \subseteq db.tablas)
    /\ ~last.nulo

\* C20: initializeSchema attempts every statement of the schema even when
\* an earlier one fails, and always returns a boolean: false if one of the
\* expected kinds is missing from the store after the batch (the store
\* unavailable or the schema definition unreadable included), true only if
\* all of them exist.
C20_EsquemaBooleano ==
    last.op = "initializeSchema"
       => /\ last.devuelve \in {"True", "False"}
          /\ ~(TablasEsperadas \subseteq db.tablas) => last.devuelve = "False"
          /\ last.devuelve = "True" => TablasEsperadas \subseteq db.tablas
          /\ (kuzu_available /\ last.o = "ok" /\ last.archivo = "ok")
                => last.intentadas = Len(SchemaSql)

----------------------------------------------------------------------------
(* Claims about failing queries and connections *)

\* C21: when the store is available and the query fails, executeQuery
\* raises to its caller; it gives back neither null nor rows.
C21_FalloSePropaga ==
    (last.op = "executeQuery" /\ kuzu_available /\ last.o = "raise")
       => (last.raised /\ last.rows = <<>>)

\* a query over a store that holds a crop near the point failed, and
\* executeQuery raised
C21_Witness ==
    /\ last.op = "executeQuery" /\ kuzu_available /\ last.o = "raise" /\ last.raised
    /\ \E p \in db.plantas : EnCaja(p, last.x, last.y, Tolerancia)

\* C22: each manager operation releases the connections it opened itself and
\* only those: when executeQuery, initializeSchema or loadInitialData has
\* returned or raised, no connection it opened is open, and a connection the
\* caller supplied to executeQuery has not been closed.
C22_LiberaLasSuyas ==
    last.op \in {"executeQuery", "initializeSchema", "loadInitialData"}
       => /\ last.abiertas = {}
          /\ last.conexion => ~\E i \in DOMAIN last.traza : last.traza[i] = Ev("close", 0)

\* C23: close is safe to repeat: close(connection) on a connection already
\* closed, and close() with nothing opened, before or after another close(),
\* raise no error; close(connection) leaves the connection closed, and after
\* close() the manager's shared connection and database handles are null.
C23_CerrarSeRepite ==
    last.op = "close"
       => /\ ~last.raised
          /\ last.conexion => last.abiertas = {}
          /\ ~last.conexion => last.manejadores = [conn |-> "none", db |-> "none"]

\* close(connection) was called on a connection that an earlier close had
\* closed, and the client raised on it
C23_Witness ==
    /\ last.op = "close" /\ last.conexion
    /\ last.estado = "closed" /\ last.o = "raise"

----------------------------------------------------------------------------
(* Claims about pointInPolygon (specification SpecPoligono) *)

\* the inside and the outside of the three polygons of the tests, by their
\* shape: the open square; the open triangle under the lines y = 2x and
\* y = 20 - 2x; the open L, a 10 x 5 rectangle with a 5 x 10 one
Interior(p, x, y) ==
    IF p = Cuadrado THEN 0 < x /\ x < 10 /\ 0 < y /\ y < 10
    ELSE IF p = Triangulo THEN 0 < y /\ y < 2 * x /\ y < 20 - 2 * x
    ELSE /\ 0 < x /\ 0 < y
         /\ (x < 10 /\ y < 5) \/ (x < 5 /\ y < 10)

Exterior(p, x, y) ==
    IF p = Cuadrado THEN x < 0 \/ x > 10 \/ y < 0 \/ y > 10
    ELSE IF p = Triangulo THEN y < 0 \/ y > 2 * x \/ y > 20 - 2 * x
    ELSE \/ x < 0 \/ y < 0 \/ x > 10 \/ y > 10
         \/ (x > 5 /\ y > 5)

\* C24: pointInPolygon returns false for every point when the polygon is
\* null, empty or has fewer than 3 vertices, and for the square, the
\* triangle and the L-shape it returns true for every grid point strictly
\* inside and false for every grid point strictly outside.
C24_ParImpar ==
    last.op = "pointInPolygon" =>
        /\ Len(last.poligono) < 3 => ~last.ret
        /\ last.poligono \in {Cuadrado, Triangulo, FormaL} =>
              /\ Interior(last.poligono, last.x, last.y) => last.ret
              /\ Exterior(last.poligono, last.x, last.y) => ~last.ret

\* the point (8,8) in the cutout of the L was tested, and found outside
C24_Witness ==
    /\ last.op = "pointInPolygon" /\ last.poligono = FormaL
    /\ last.x = 8 /\ last.y = 8 /\ ~last.ret

\* C30: pointInPolygon never divides by zero: the division of the
\* edge-crossing expression is evaluated only for edges whose endpoints
\* differ in y, whatever the polygon (horizontal edges and repeated vertices
\* included) and the point.
C30_SinDivisionPorCero ==
    last.op = "pointInPolygon" => 0 \notin last.divisores

\* a point level with the repeated vertex and the horizontal edge of the
\* square with a degenerate edge was tested, and a division was evaluated
C30_Witness ==
    /\ last.op = "pointInPolygon" /\ last.y = 0
    /\ Len(last.poligono) = 5 /\ last.divisores # {}

----------------------------------------------------------------------------
(* Claims about ids of the in-memory lists (specification Spec) *)

\* the ids of a list are pairwise distinct
IdsDistintos(l) ==
    \A i, j \in 1..Len(l) : i # j => l[i].id # l[j].id

\* every id of a list is one a caller supplied or the one generated at its
\* position: the list only grows by appending, so the entity at position i
\* was stored when i - 1 entities were
IdsGenerados(l, pfx, supplied) ==
    \A i \in 1..Len(l) : l[i].id \in supplied \/ l[i].id = GenId(pfx, i)

\* C28: after any sequence of placeCrop (and addAnnotation) calls mixing
\* caller-supplied and generated ids, the ids of the in-memory list are
\* pairwise distinct, a generated id is 'cultivo_<n+1>' ('anotacion_<n+1>')
\* for n entities stored before the call, and the returned id is the id of
\* the stored entity.
C28_IdsDistintos ==
    /\ IdsDistintos(cultivos_activos)
    /\ IdsDistintos(anotaciones)
    /\ IdsGenerados(cultivos_activos, "cultivo", CultivoIdInputs \ {NoId})
    /\ IdsGenerados(anotaciones, "anotacion", {a.id : a \in AnotacionInputs} \ {NoId})
    /\ last.op = "placeCrop" /\ ~last.raised =>
          last.id = cultivos_activos[Len(cultivos_activos)].id
    /\ last.op = "addAnnotation" =>
          last.id = anotaciones[Len(anotaciones)].id

----------------------------------------------------------------------------
(* Claims about what createCrop leaves in the store (specification         *)
(* SpecAdaptador)                                                          *)

\* C27: whenever createCrop returns true for a crop, the store contains the
\* crop's node, its typed edge to the vegetable-type node and both location
\* edges; also when an earlier createCrop for the same id failed after the
\* node was created, and when the vegetable-type or Garden node is absent.
C27_CultivoCompleto ==
    (last.op = "createCrop" /\ last.ret) =>
        /\ last.id \in PlantaIds(db)
        /\ \E e \in DOMAIN db.is_of_type : e[1] = last.id
        /\ last.id \in DOMAIN db.located_in

----------------------------------------------------------------------------
(* Claims about cursors (specification SpecCursores) *)

\* the connection c is open after the first k events of the trace t: it
\* was opened and not closed since (the supplied connection 0 is open)
AbiertaTras(t, k, c) ==
    IF \E i \in 1..k : t[i] = Ev("close", c) THEN FALSE
    ELSE c = 0 \/ \E i \in 1..k : t[i] = Ev("open", c)

\* C29: every result cursor returned by executeQuery is read (has-more /
\* next-row) only while the connection that produced it is still open: no
\* caller in the manager or the adapter consumes a cursor after
\* executeQuery has closed the connection it opened for the query.
C29_LeeConLaConexionAbierta ==
    \A k \in DOMAIN last.traza :
        last.traza[k].ev = "read" => AbiertaTras(last.traza, k - 1, last.traza[k].c)

----------------------------------------------------------------------------
(* Claims about the schema state (specification SpecEsquema) *)

\* C26: the schema state is re-evaluated on every connect and never cached:
\* each connect on an available manager constructs a new connection object
\* (none is kept in the manager), probes the store, and runs the automatic
\* schema creation exactly when a probe fails; so after the store is deleted
\* from outside the next connect runs the schema creation again (and brings
\* every table back when the creation succeeds), and while the probes find
\* the schema ready no connect runs it and the store is left as it is.
C26_EsquemaReevaluado ==
    [][(last'.op = "connect" /\ kuzu_available /\ last'.o = "ok")
       => /\ ~last'.nulo
          /\ last'.traza = <<Ev("open", 1), Ev("execute", 1)>>
          /\ last'.manejadores = SinManejadores
          /\ last'.fallo <=> last'.esquema \in {"True", "False"}
          /\ ~last'.fallo <=> last'.esquema = "inicializada"
          /\ db.tablas = {} =>
                /\ last'.esquema \in {"True", "False"}
                /\ last'.esquema = "True" => db'.tablas = TablasEsperadas
          /\ ~last'.fallo => db' = db]_vars

\* the store was deleted from outside, and the connect after it created
\* every table again
C26_Witness ==
    /\ last.op = "connect" /\ db.borrados = 1
    /\ last.fallo /\ last.esquema = "True"
    /\ db.tablas = TablasEsperadas

----------------------------------------------------------------------------
(* Claims about concurrent calls (specification SpecHilos) *)

\* C25: mutations of the in-memory collections are mutually exclusive: when
\* two placeCrop calls with coordinates within the collision radius of each
\* other run concurrently, under every interleaving of their collision
\* check, id assignment and append at most one of them succeeds, so the
\* stored crops stay pairwise separated and no two stored crops receive the
\* same generated id.
C25_ExclusionMutua ==
    \A i, j \in 1..Len(cultivos_activos) :
        i # j => /\ ~Cerca(cultivos_activos[i], cultivos_activos[j].x,
                           cultivos_activos[j].y, Radio)
                 /\ cultivos_activos[i].id # cultivos_activos[j].id

====
